---- MODULE Spec2Model ----
(***************************************************************************)
(* AuthorKit site API: the security layer shared by the serverless         *)
(* handlers (api/_lib/security.js) and the handlers that compose it.       *)
(*                                                                         *)
(* Text that the code concatenates, splits, compares or converts is a      *)
(* sequence of one-character strings, so that the template literal         *)
(* `activate:${clientIp}` is a concatenation and a conversion is computed  *)
(* character by character. Text the code only passes on is a string.       *)
(***************************************************************************)
EXTENDS Integers, Sequences, FiniteSets, TLC

VARIABLES
  now,             \* Date.now(), in milliseconds
  ticks,           \* how often the clock has advanced
  steps,           \* how many operations have run
  rateLimitStore,  \* security.js: const rateLimitStore = new Map()
  rlLast,          \* the last rateLimit call: its arguments, its time, its result
  rlWindow,        \* history: per identifier, the window its calls are counted in
  env,             \* process.env
  issued,          \* history: the tokens generateSecureToken has returned
  verified,        \* the last verifySecureToken call: its token, its time, its result
  req,             \* the request last handled
  res,             \* the response to it: status, body, headers
  trace,           \* what the handler did for it, in order: limiter, validation,
                   \* outbound calls, security events, parsing, dispatch
  subscribers,     \* the email_subscribers table and its id sequence
  pending,         \* requests waiting for the database
  shelf,           \* the bookshelf's tables: sites, books, genres of books
  call             \* the last call of a function on its own: its arguments, its result

clockVars == <<now, ticks, steps>>
rlVars == <<rateLimitStore, rlLast, rlWindow>>
tokVars == <<issued, verified>>
apiVars == <<req, res, trace, subscribers, pending, shelf>>

\* ------------------------------------------------------------------ bounds

\* The clock's value when the process starts (Date.now() is positive).
StartTime == 5000
\* Clock advances per behaviour.
MaxTicks == 1
\* rateLimit calls per behaviour of the limiter's own specification.
MaxCalls == 4
\* Clock advances of the token specification.
MaxTokenTicks == 1
\* The limiter sweeps when the store holds more than 10000 records
\* (security.js:71); the model keeps the comparison and scales the number so
\* that a handful of identifiers crosses it.
SweepThreshold == 1

\* Clock advances: one millisecond, a second, a minute.
Deltas == {1, 1000, 60000}

\* ------------------------------------------------------------ rate limiter

\* const key = `ratelimit:${identifier}`
T_ratelimit == <<"r","a","t","e","l","i","m","i","t",":">>
RateLimitKey(identifier) == T_ratelimit \o identifier

\* Math.ceil(a / b) for b > 0
Ceil(a, b) == -((-a) \div b)

\* Sweep with the cutoff on the wrong side of now: it deletes open windows.
SweepOpenWindows(store, t, windowMs) ==
  IF Cardinality(DOMAIN store) > SweepThreshold
  THEN LET cutoff == t + windowMs
           kept == {k \in DOMAIN store : ~(store[k].resetTime < cutoff)}
       IN [k \in kept |-> store[k]]
  ELSE store

\* security.js:70-78: with more than the threshold of records, delete every
\* record whose resetTime < now - windowMs.
Sweep(store, t, windowMs) ==
  IF Cardinality(DOMAIN store) > SweepThreshold
  THEN LET cutoff == t - windowMs
           kept == {k \in DOMAIN store : ~(store[k].resetTime < cutoff)}
       IN [k \in kept |-> store[k]]
  ELSE store

\* A window that ends one instant early: now >= record.resetTime.
NewWindowAtReset(store, key, t) ==
  key \notin DOMAIN store \/ t >= store[key].resetTime

\* security.js:80-89: no record, or now > record.resetTime.
NewWindow(store, key, t) ==
  key \notin DOMAIN store \/ t > store[key].resetTime

\* The limit test off by one: count > maxRequests.
ExceededOffByOne(record, maxRequests) == record.count > maxRequests

\* security.js:91: record.count >= maxRequests
Exceeded(record, maxRequests) == record.count >= maxRequests

\* rateLimit counting the calls it denies as well.
RateLimitCountingDenied(store, identifier, maxRequests, windowMs, t) ==
  LET key == RateLimitKey(identifier)
      swept == Sweep(store, t, windowMs)
  IN IF NewWindow(swept, key, t)
     THEN [store |-> [k \in DOMAIN swept \cup {key} |->
                        IF k = key
                        THEN [count |-> 1, resetTime |-> t + windowMs]
                        ELSE swept[k]],
           result |-> [allowed |-> TRUE, remaining |-> maxRequests - 1]]
     ELSE IF Exceeded(swept[key], maxRequests)
     THEN [store |-> [swept EXCEPT ![key].count = @ + 1],
           result |-> [allowed |-> FALSE, remaining |-> 0,
                       resetTime |-> swept[key].resetTime,
                       retryAfter |-> Ceil(swept[key].resetTime - t, 1000)]]
     ELSE [store |-> [swept EXCEPT ![key].count = @ + 1],
           result |-> [allowed |-> TRUE,
                       remaining |-> maxRequests - (swept[key].count + 1)]]

\* security.js:66-104: the store after the call and the value returned.
RateLimit(store, identifier, maxRequests, windowMs, t) ==
  LET key == RateLimitKey(identifier)
      swept == Sweep(store, t, windowMs)
  IN IF NewWindow(swept, key, t)
     THEN [store |-> [k \in DOMAIN swept \cup {key} |->
                        IF k = key
                        THEN [count |-> 1, resetTime |-> t + windowMs]
                        ELSE swept[k]],
           result |-> [allowed |-> TRUE, remaining |-> maxRequests - 1]]
     ELSE IF Exceeded(swept[key], maxRequests)
     THEN [store |-> swept,
           result |-> [allowed |-> FALSE, remaining |-> 0,
                       resetTime |-> swept[key].resetTime,
                       retryAfter |-> Ceil(swept[key].resetTime - t, 1000)]]
     ELSE [store |-> [swept EXCEPT ![key].count = @ + 1],
           result |-> [allowed |-> TRUE,
                       remaining |-> maxRequests - (swept[key].count + 1)]]

\* History of the calls of one identifier: a window opens with a call made
\* when no earlier window of the identifier is open, and stays open until
\* the clock passes opened + windowMs of that first call. uniform: every
\* call of the window had the first call's maxRequests and windowMs; sameMax:
\* every call of the window had the first call's maxRequests.
WindowOpen(w, identifier, t) ==
  identifier \in DOMAIN w /\ t <= w[identifier].opened + w[identifier].windowMs

TrackCall(w, identifier, maxRequests, windowMs, t) ==
  IF WindowOpen(w, identifier, t)
  THEN [w EXCEPT ![identifier] =
          [@ EXCEPT !.calls = @ + 1,
                    !.uniform = @ /\ w[identifier].maxRequests = maxRequests
                                  /\ w[identifier].windowMs = windowMs,
                    !.sameMax = @ /\ w[identifier].maxRequests = maxRequests]]
  ELSE [i \in DOMAIN w \cup {identifier} |->
          IF i = identifier
          THEN [opened |-> t, maxRequests |-> maxRequests,
                windowMs |-> windowMs, calls |-> 1, uniform |-> TRUE,
                sameMax |-> TRUE]
          ELSE w[i]]

NoCall == [identifier |-> <<>>]

\* The identifiers, limits and windows the limiter's own specification calls
\* rateLimit with.
Identifiers == {<<"A">>, <<"B">>}
MaxRequestsSet == {1, 3}
WindowMsSet == {1000, 60000}

\* -------------------------------------------------------------------- text

\* Text is a sequence of one-character strings.
T_http == <<"h","t","t","p",":","/","/">>
T_https == <<"h","t","t","p","s",":","/","/">>
T_www == <<"w","w","w",".">>

StartsWith(s, p) == Len(s) >= Len(p) /\ SubSeq(s, 1, Len(p)) = p
EndsWith(s, p) == Len(s) >= Len(p) /\ SubSeq(s, Len(s) - Len(p) + 1, Len(s)) = p
DropFirst(s, n) == SubSeq(s, n + 1, Len(s))
DropLast(s, n) == SubSeq(s, 1, Len(s) - n)

LowerLetters ==
  {"a","b","c","d","e","f","g","h","i","j","k","l","m",
   "n","o","p","q","r","s","t","u","v","w","x","y","z"}
Digits == {"0","1","2","3","4","5","6","7","8","9"}
UpperSeq ==
  <<"A","B","C","D","E","F","G","H","I","J","K","L","M",
    "N","O","P","Q","R","S","T","U","V","W","X","Y","Z">>
LowerSeq ==
  <<"a","b","c","d","e","f","g","h","i","j","k","l","m",
    "n","o","p","q","r","s","t","u","v","w","x","y","z">>

\* String.prototype.toLowerCase, on the ASCII letters
LowerOf == [c \in {UpperSeq[i] : i \in 1..26} |->
              LowerSeq[CHOOSE i \in 1..26 : UpperSeq[i] = c]]
LowerChar(c) == IF c \in DOMAIN LowerOf THEN LowerOf[c] ELSE c
ToLowerCase(s) == [i \in 1..Len(s) |-> LowerChar(s[i])]

\* String.prototype.trim: white space off both ends
IsSpace(c) == c \in {" ", "\t", "\n", "\r"}
RECURSIVE TrimStart(_)
TrimStart(s) == IF s # <<>> /\ IsSpace(Head(s)) THEN TrimStart(Tail(s)) ELSE s
RECURSIVE TrimEnd(_)
TrimEnd(s) == IF s # <<>> /\ IsSpace(s[Len(s)]) THEN TrimEnd(DropLast(s, 1)) ELSE s
Trim(s) == TrimEnd(TrimStart(s))

\* .replace(/^https?:\/\//, '')
StripScheme(s) ==
  IF StartsWith(s, T_https) THEN DropFirst(s, Len(T_https))
  ELSE IF StartsWith(s, T_http) THEN DropFirst(s, Len(T_http))
  ELSE s
\* .replace(/^www\./, '')
StripWww(s) == IF StartsWith(s, T_www) THEN DropFirst(s, Len(T_www)) ELSE s
\* .replace(/\/$/, '')
StripSlash(s) == IF EndsWith(s, <<"/">>) THEN DropLast(s, 1) ELSE s

\* The clean-up the handlers apply to an active site's URL
\* (validate-license.js:169-173, activate-license.js:159-163).
CleanSite(s) == ToLowerCase(StripSlash(StripWww(StripScheme(s))))
\* security.js:159-164: the same, then .trim()
CleanUrl(s) == Trim(CleanSite(s))

\* The parts of s between the separators c: String.prototype.split(c)
RECURSIVE SplitOn(_, _)
SplitOn(s, c) ==
  IF \E i \in 1..Len(s) : s[i] = c
  THEN LET i == CHOOSE j \in 1..Len(s) : s[j] = c /\ \A k \in 1..(j - 1) : s[k] # c
       IN <<SubSeq(s, 1, i - 1)>> \o SplitOn(DropFirst(s, i), c)
  ELSE <<s>>

\* ------------------------------------------------------------ JavaScript values

Undefined == [t |-> "undefined"]
Null == [t |-> "null"]
Str(text) == [t |-> "str", v |-> text]
Num(n) == [t |-> "num", v |-> n]

\* JavaScript truthiness
Truthy(value) ==
  CASE value.t = "str" -> value.v # <<>>
    [] value.t = "num" -> value.v # 0
    [] value.t = "bool" -> value.v
    [] value.t \in {"obj", "arr"} -> TRUE
    [] OTHER -> FALSE

\* data[field]
Get(data, field) == IF field \in DOMAIN data THEN data[field] ELSE Undefined

\* ------------------------------------------------------------ validateInput

\* rules.pattern.test(value) for the patterns the handlers declare:
\* /^[a-z0-9-]+$/ (check-update.js:348) and /^\d+\.\d+\.\d+$/ (check-update.js:354)
AllDigits(s) == s # <<>> /\ \A i \in 1..Len(s) : s[i] \in Digits
PatternTest(pattern, s) ==
  CASE pattern = "slug" ->
         s # <<>> /\ \A i \in 1..Len(s) : s[i] \in LowerLetters \cup Digits \cup {"-"}
    [] pattern = "semver" ->
         LET parts == SplitOn(s, ".")
         IN Len(parts) = 3 /\ \A i \in 1..3 : AllDigits(parts[i])
    [] OTHER -> TRUE

\* A field's rules: [field, type, required, maxLength, minLength, pattern];
\* maxLength, minLength 0 and pattern "none" stand for a rule that is not given.
Rule(field, type, required, maxLength, minLength, pattern) ==
  [field |-> field, type |-> type, required |-> required,
   maxLength |-> maxLength, minLength |-> minLength, pattern |-> pattern]

Fail(acc, field, msg) ==
  [acc EXCEPT !.errors = Append(@, [field |-> field, msg |-> msg])]
Store(acc, field, value) ==
  [acc EXCEPT !.data = [f \in DOMAIN @ \cup {field} |->
                          IF f = field THEN value ELSE @[f]]]

\* security.js:129-154: a type 'string' field with a truthy value
ValidateString(acc, rules, value) ==
  IF value.t # "str" THEN Fail(acc, rules.field, "must be a string")
  ELSE IF rules.maxLength # 0 /\ Len(value.v) > rules.maxLength
  THEN Fail(acc, rules.field, "must be less than maxLength characters")
  ELSE IF rules.minLength # 0 /\ Len(value.v) < rules.minLength
  THEN Fail(acc, rules.field, "must be at least minLength characters")
  ELSE IF rules.pattern # "none" /\ ~PatternTest(rules.pattern, value.v)
  THEN Fail(acc, rules.field, "has invalid format")
  ELSE Store(acc, rules.field, Str(Trim(value.v)))

\* security.js:156-175: a type 'url' field with a truthy value; value.replace
\* of a value that is no string throws inside the try and is caught.
ValidateUrl(acc, rules, value) ==
  IF value.t # "str" THEN Fail(acc, rules.field, "must be a valid URL")
  ELSE LET cleaned == CleanUrl(value.v)
       IN IF Len(cleaned) = 0 \/ Len(cleaned) > 255
          THEN Fail(acc, rules.field, "must be a valid URL")
          ELSE Store(acc, rules.field, Str(cleaned))

\* security.js:113-176: one turn of the loop over the schema. value.trim() of a
\* truthy value that is no string is a TypeError, which nothing here catches.
ValidateField(acc, rules, value) ==
  IF rules.required /\ ~Truthy(value) THEN Fail(acc, rules.field, "is required")
  ELSE IF rules.required /\ value.t # "str" THEN [acc EXCEPT !.threw = TRUE]
  ELSE IF rules.required /\ Trim(value.v) = <<>>
  THEN Fail(acc, rules.field, "is required")
  ELSE IF ~Truthy(value) THEN Store(acc, rules.field, Null)
  ELSE IF rules.type = "string" THEN ValidateString(acc, rules, value)
  ELSE IF rules.type = "url" THEN ValidateUrl(acc, rules, value)
  ELSE acc

RECURSIVE ValidateFrom(_, _, _, _)
ValidateFrom(data, schema, i, acc) ==
  IF acc.threw \/ i > Len(schema) THEN acc
  ELSE ValidateFrom(data, schema, i + 1,
                    ValidateField(acc, schema[i], Get(data, schema[i].field)))

\* security.js:109-183: threw, or {isValid, errors, data}
ValidateInput(data, schema) ==
  LET acc == ValidateFrom(data, schema, 1,
                          [threw |-> FALSE, errors |-> <<>>, data |-> << >>])
  IN [threw |-> acc.threw, isValid |-> acc.errors = <<>>,
      errors |-> acc.errors, data |-> acc.data]

\* ------------------------------------------------------- bytes, hex, base64

\* The printable ASCII characters, code 32 to 126 (code 96, the grave accent,
\* is written by name).
Printable ==
  <<" ","!","\"","#","$","%","&","'","(",")","*","+",",","-",".","/",
    "0","1","2","3","4","5","6","7","8","9",":",";","<","=",">","?",
    "@","A","B","C","D","E","F","G","H","I","J","K","L","M","N","O",
    "P","Q","R","S","T","U","V","W","X","Y","Z","[","\\","]","^","_",
    "GRAVE","a","b","c","d","e","f","g","h","i","j","k","l","m","n","o",
    "p","q","r","s","t","u","v","w","x","y","z","{","|","}","~">>

\* What decoding yields for a byte sequence that is no UTF-8 text: U+FFFD.
Replacement == "U+FFFD"

\* The place of each printable character in the table
PrintableIndex ==
  [c \in {Printable[i] : i \in 1..Len(Printable)} |->
     CHOOSE i \in 1..Len(Printable) : Printable[i] = c]

\* The UTF-8 bytes of one character
Utf8(c) ==
  IF c \in DOMAIN PrintableIndex
  THEN <<31 + PrintableIndex[c]>>
  ELSE IF c = "\t" THEN <<9>>
  ELSE IF c = "\n" THEN <<10>>
  ELSE IF c = "\r" THEN <<13>>
  ELSE <<239, 191, 189>>

\* Buffer.from(text): the UTF-8 bytes of a text
RECURSIVE Bytes(_)
Bytes(s) ==
  IF s = <<>> THEN <<>>
  ELSE IF Len(s) = 1 THEN Utf8(s[1])
  ELSE Bytes(SubSeq(s, 1, Len(s) \div 2)) \o Bytes(SubSeq(s, Len(s) \div 2 + 1, Len(s)))

\* buffer.toString('utf-8'): ASCII bytes decode to their characters; the
\* bytes EF BF BD decode to U+FFFD, and so does every byte that starts no
\* character of the model's alphabet
CharOf(b) ==
  IF b \in 32..126 THEN Printable[b - 31]
  ELSE IF b = 9 THEN "\t"
  ELSE IF b = 10 THEN "\n"
  ELSE IF b = 13 THEN "\r"
  ELSE Replacement
\* The bytes EF BF BD start at place i
IsReplacementAt(bytes, i) ==
  i >= 1 /\ i + 2 <= Len(bytes) /\ SubSeq(bytes, i, i + 2) = <<239, 191, 189>>
\* What the byte at place i adds to the text: U+FFFD where EF BF BD starts,
\* nothing for that sequence's second and third byte, its character otherwise
DecodeAt(bytes, i) ==
  IF IsReplacementAt(bytes, i) THEN <<Replacement>>
  ELSE IF IsReplacementAt(bytes, i - 1) \/ IsReplacementAt(bytes, i - 2) THEN <<>>
  ELSE <<CharOf(bytes[i])>>
RECURSIVE DecodeRange(_, _, _)
DecodeRange(bytes, lo, hi) ==
  IF lo > hi THEN <<>>
  ELSE IF lo = hi THEN DecodeAt(bytes, lo)
  ELSE DecodeRange(bytes, lo, (lo + hi) \div 2)
         \o DecodeRange(bytes, (lo + hi) \div 2 + 1, hi)
Utf8Decode(bytes) == DecodeRange(bytes, 1, Len(bytes))

HexDigits == <<"0","1","2","3","4","5","6","7","8","9","a","b","c","d","e","f">>
HexByte(b) == <<HexDigits[(b \div 16) + 1], HexDigits[(b % 16) + 1]>>

B64Alphabet ==
  <<"A","B","C","D","E","F","G","H","I","J","K","L","M","N","O","P",
    "Q","R","S","T","U","V","W","X","Y","Z","a","b","c","d","e","f",
    "g","h","i","j","k","l","m","n","o","p","q","r","s","t","u","v",
    "w","x","y","z","0","1","2","3","4","5","6","7","8","9","+","/">>
B64Char(n) == B64Alphabet[n + 1]

\* buffer.toString('base64')
RECURSIVE Base64Encode(_)
Base64Encode(b) ==
  IF b = <<>> THEN <<>>
  ELSE IF Len(b) = 1
  THEN <<B64Char(b[1] \div 4), B64Char((b[1] % 4) * 16), "=", "=">>
  ELSE IF Len(b) = 2
  THEN <<B64Char(b[1] \div 4), B64Char((b[1] % 4) * 16 + b[2] \div 16),
         B64Char((b[2] % 16) * 4), "=">>
  ELSE IF Len(b) = 3
  THEN <<B64Char(b[1] \div 4), B64Char((b[1] % 4) * 16 + b[2] \div 16),
         B64Char((b[2] % 16) * 4 + b[3] \div 64), B64Char(b[3] % 64)>>
  ELSE LET half == 3 * ((Len(b) + 5) \div 6)
       IN Base64Encode(SubSeq(b, 1, half)) \o Base64Encode(DropFirst(b, half))

\* The 6-bit value of a base64 character; the decoder also reads the URL-safe
\* '-' and '_'.
B64Index ==
  [c \in {B64Alphabet[i] : i \in 1..64} |-> CHOOSE i \in 1..64 : B64Alphabet[i] = c]
IsB64(c) == c \in {"-", "_"} \/ c \in DOMAIN B64Index
B64Value(c) ==
  IF c = "-" THEN 62
  ELSE IF c = "_" THEN 63
  ELSE B64Index[c] - 1

\* The sextets of a base64 text as the decoder reads it: up to the first '=',
\* skipping every character outside the alphabet.
Sextets(s) ==
  LET stops == {i \in 1..Len(s) : s[i] = "="}
      end == IF stops = {} THEN Len(s)
             ELSE (CHOOSE i \in stops : \A j \in stops : i <= j) - 1
      kept == SelectSeq(SubSeq(s, 1, end), IsB64)
  IN [i \in 1..Len(kept) |-> B64Value(kept[i])]

RECURSIVE SextetsToBytes(_)
SextetsToBytes(x) ==
  IF Len(x) < 2 THEN <<>>
  ELSE IF Len(x) = 2 THEN <<x[1] * 4 + x[2] \div 16>>
  ELSE IF Len(x) = 3
  THEN <<x[1] * 4 + x[2] \div 16, (x[2] % 16) * 16 + x[3] \div 4>>
  ELSE IF Len(x) = 4
  THEN <<x[1] * 4 + x[2] \div 16, (x[2] % 16) * 16 + x[3] \div 4,
         (x[3] % 4) * 64 + x[4]>>
  ELSE LET half == 4 * ((Len(x) + 7) \div 8)
       IN SextetsToBytes(SubSeq(x, 1, half)) \o SextetsToBytes(DropFirst(x, half))

\* Buffer.from(text, 'base64')
Base64Decode(s) == SextetsToBytes(Sextets(s))

\* crypto.createHmac('sha256', secret).update(text).digest('hex'). SHA-256 is
\* not computed: the digest stands for a keyed function of the text's bytes
\* without collisions, written in lower-case hexadecimal. Secrets are numbered.
RECURSIVE KeyedHex(_, _)
KeyedHex(key, bytes) ==
  IF bytes = <<>> THEN <<>>
  ELSE IF Len(bytes) = 1 THEN HexByte((bytes[1] + key) % 256)
  ELSE KeyedHex(key, SubSeq(bytes, 1, Len(bytes) \div 2))
         \o KeyedHex(key, SubSeq(bytes, Len(bytes) \div 2 + 1, Len(bytes)))
HmacHexBytes(secret, bytes) == HexByte(secret) \o KeyedHex(secret, bytes)
\* update(text) hashes the text's UTF-8 bytes
HmacHex(secret, text) == HmacHexBytes(secret, Bytes(text))

\* -------------------------------------------------------------------- JSON

\* An object is its properties in insertion order: a sequence of [k, v].
Obj(props) == [t |-> "obj", v |-> props]
Bool(b) == [t |-> "bool", v |-> b]
Prop(k, v) == [k |-> k, v |-> v]

HasProp(props, k) == \E i \in 1..Len(props) : props[i].k = k
\* object[k]
GetProp(props, k) ==
  IF HasProp(props, k)
  THEN props[CHOOSE i \in 1..Len(props) : props[i].k = k].v
  ELSE Undefined
\* object[k] = v: an existing property keeps its place
SetProp(props, k, v) ==
  IF HasProp(props, k)
  THEN [i \in 1..Len(props) |-> IF props[i].k = k THEN Prop(k, v) ELSE props[i]]
  ELSE Append(props, Prop(k, v))
\* The properties as a map, for comparing objects whatever their order
PropMap(props) == [k \in {props[i].k : i \in 1..Len(props)} |-> GetProp(props, k)]

DigitSeq == <<"0","1","2","3","4","5","6","7","8","9">>
RECURSIVE NatText(_)
NatText(n) ==
  IF n < 10 THEN <<DigitSeq[n + 1]>>
  ELSE NatText(n \div 10) \o <<DigitSeq[(n % 10) + 1]>>
\* String(n) of an integer
NumberText(n) == IF n < 0 THEN <<"-">> \o NatText(-n) ELSE NatText(n)

DigitValue(c) == (CHOOSE i \in 1..10 : DigitSeq[i] = c) - 1
RECURSIVE NatValue(_)
\* Number(text) of a text of decimal digits
NatValue(s) ==
  IF s = <<>> THEN 0 ELSE NatValue(DropLast(s, 1)) * 10 + DigitValue(s[Len(s)])

EscapeChar(c) ==
  IF c = "\"" THEN <<"\\", "\"">>
  ELSE IF c = "\\" THEN <<"\\", "\\">>
  ELSE IF c = "\n" THEN <<"\\", "n">>
  ELSE IF c = "\t" THEN <<"\\", "t">>
  ELSE IF c = "\r" THEN <<"\\", "r">>
  ELSE <<c>>
RECURSIVE Escape(_)
Escape(s) ==
  IF s = <<>> THEN <<>>
  ELSE IF Len(s) = 1 THEN EscapeChar(s[1])
  ELSE Escape(SubSeq(s, 1, Len(s) \div 2)) \o Escape(SubSeq(s, Len(s) \div 2 + 1, Len(s)))
\* A string put between quotes as it is.
QuoteUnescaped(s) == <<"\"">> \o s \o <<"\"">>
Quote(s) == <<"\"">> \o Escape(s) \o <<"\"">>

\* JSON.stringify: a property whose value is undefined is left out.
RECURSIVE JsonStringify(_)
RECURSIVE StringifyProps(_, _)
StringifyProps(props, first) ==
  IF props = <<>> THEN <<>>
  ELSE IF Head(props).v.t = "undefined" THEN StringifyProps(Tail(props), first)
  ELSE (IF first THEN <<>> ELSE <<",">>)
       \o Quote(Head(props).k) \o <<":">> \o JsonStringify(Head(props).v)
       \o StringifyProps(Tail(props), FALSE)
JsonStringify(value) ==
  CASE value.t = "str" -> Quote(value.v)
    [] value.t = "num" -> NumberText(value.v)
    [] value.t = "bool" -> IF value.v THEN <<"t","r","u","e">>
                           ELSE <<"f","a","l","s","e">>
    [] value.t = "obj" -> <<"{">> \o StringifyProps(value.v, TRUE) \o <<"}">>
    [] OTHER -> <<"n","u","l","l">>

\* JSON.parse, by recursive descent over objects, strings, integers and the
\* literals. A result is [ok, val, pos]: the value read and the place after it.
ParseFail == [ok |-> FALSE]
Parsed(val, pos) == [ok |-> TRUE, val |-> val, pos |-> pos]

RECURSIVE SkipWs(_, _)
SkipWs(s, i) == IF i <= Len(s) /\ IsSpace(s[i]) THEN SkipWs(s, i + 1) ELSE i

RECURSIVE ScanString(_, _, _)
ScanString(s, i, acc) ==
  IF i > Len(s) THEN ParseFail
  ELSE IF s[i] = "\"" THEN Parsed(Str(acc), i + 1)
  ELSE IF s[i] = "\\"
  THEN IF i + 1 > Len(s) THEN ParseFail
       ELSE IF s[i + 1] \in {"\"", "\\", "/"}
       THEN ScanString(s, i + 2, Append(acc, s[i + 1]))
       ELSE IF s[i + 1] = "n" THEN ScanString(s, i + 2, Append(acc, "\n"))
       ELSE IF s[i + 1] = "t" THEN ScanString(s, i + 2, Append(acc, "\t"))
       ELSE IF s[i + 1] = "r" THEN ScanString(s, i + 2, Append(acc, "\r"))
       ELSE ParseFail
  ELSE IF s[i] \in {"\n", "\t", "\r"} THEN ParseFail
  ELSE ScanString(s, i + 1, Append(acc, s[i]))

RECURSIVE ScanDigits(_, _)
ScanDigits(s, i) == IF i <= Len(s) /\ s[i] \in Digits THEN ScanDigits(s, i + 1) ELSE i

ParseNumber(s, i) ==
  LET neg == s[i] = "-"
      from == IF neg THEN i + 1 ELSE i
      to == ScanDigits(s, from)
  IN IF to = from THEN ParseFail
     ELSE IF to - from > 1 /\ s[from] = "0" THEN ParseFail
     ELSE Parsed(Num((IF neg THEN -1 ELSE 1) * NatValue(SubSeq(s, from, to - 1))), to)

ParseLiteral(s, i, word, val) ==
  IF i + Len(word) - 1 <= Len(s) /\ SubSeq(s, i, i + Len(word) - 1) = word
  THEN Parsed(val, i + Len(word))
  ELSE ParseFail

RECURSIVE ParseValue(_, _)
RECURSIVE ParseProps(_, _, _)
RECURSIVE ParseItems(_, _, _)
\* After '[' or ',': a value, then ',' or ']'
ParseItems(s, i0, items) ==
  LET val == ParseValue(s, i0)
  IN IF ~val.ok THEN ParseFail
     ELSE LET e == SkipWs(s, val.pos)
          IN IF e > Len(s) THEN ParseFail
             ELSE IF s[e] = "]"
             THEN Parsed([t |-> "arr", v |-> Append(items, val.val)], e + 1)
             ELSE IF s[e] = "," THEN ParseItems(s, e + 1, Append(items, val.val))
             ELSE ParseFail
\* After '{' or ',': "key" : value, then ',' or '}'
ParseProps(s, i0, props) ==
  LET i == SkipWs(s, i0)
  IN IF i > Len(s) \/ s[i] # "\"" THEN ParseFail
     ELSE LET key == ScanString(s, i + 1, <<>>)
          IN IF ~key.ok THEN ParseFail
             ELSE LET c == SkipWs(s, key.pos)
                  IN IF c > Len(s) \/ s[c] # ":" THEN ParseFail
                     ELSE LET val == ParseValue(s, c + 1)
                          IN IF ~val.ok THEN ParseFail
                             ELSE LET e == SkipWs(s, val.pos)
                                      next == SetProp(props, key.val.v, val.val)
                                  IN IF e > Len(s) THEN ParseFail
                                     ELSE IF s[e] = "}" THEN Parsed(Obj(next), e + 1)
                                     ELSE IF s[e] = "," THEN ParseProps(s, e + 1, next)
                                     ELSE ParseFail
ParseValue(s, i0) ==
  LET i == SkipWs(s, i0)
  IN IF i > Len(s) THEN ParseFail
     ELSE IF s[i] = "{"
     THEN LET j == SkipWs(s, i + 1)
          IN IF j <= Len(s) /\ s[j] = "}" THEN Parsed(Obj(<<>>), j + 1)
             ELSE ParseProps(s, i + 1, <<>>)
     ELSE IF s[i] = "["
     THEN LET j == SkipWs(s, i + 1)
          IN IF j <= Len(s) /\ s[j] = "]" THEN Parsed([t |-> "arr", v |-> <<>>], j + 1)
             ELSE ParseItems(s, i + 1, <<>>)
     ELSE IF s[i] = "\"" THEN ScanString(s, i + 1, <<>>)
     ELSE IF s[i] = "-" \/ s[i] \in Digits THEN ParseNumber(s, i)
     ELSE IF s[i] = "n" THEN ParseLiteral(s, i, <<"n","u","l","l">>, Null)
     ELSE IF s[i] = "t" THEN ParseLiteral(s, i, <<"t","r","u","e">>, Bool(TRUE))
     ELSE IF s[i] = "f" THEN ParseLiteral(s, i, <<"f","a","l","s","e">>, Bool(FALSE))
     ELSE ParseFail

\* JSON.parse(text): [ok, val]; not ok stands for the SyntaxError thrown.
JsonParse(s) ==
  LET r == ParseValue(s, 1)
  IN IF r.ok /\ SkipWs(s, r.pos) = Len(s) + 1
     THEN [ok |-> TRUE, val |-> r.val]
     ELSE ParseFail

\* ------------------------------------------------------------------ tokens

T_exp == <<"e","x","p">>

\* The secret 'change-this-in-production' (secrets are numbered; 0 is unset).
DefaultTokenSecret == 1
\* process.env.DOWNLOAD_TOKEN_SECRET || 'change-this-in-production'
TokenSecret(e) ==
  IF e.DOWNLOAD_TOKEN_SECRET # 0 THEN e.DOWNLOAD_TOKEN_SECRET ELSE DefaultTokenSecret

\* security.js:191-196: { ...payload, exp: Date.now() + expiresIn * 1000 }
WithExpiry(payload, expiresIn, t) == SetProp(payload, T_exp, Num(t + expiresIn * 1000))

\* security.js:189-208
GenerateSecureToken(payload, expiresIn, e, t) ==
  LET dataString == JsonStringify(Obj(WithExpiry(payload, expiresIn, t)))
      signature == HmacHex(TokenSecret(e), dataString)
  IN Base64Encode(Bytes(dataString)) \o <<".">> \o signature

\* A comparison of the lengths alone.
SignatureLengthDiffers(signature, expected) == Len(signature) # Len(expected)

\* security.js:231: signature !== expectedSignature
SignatureDiffers(signature, expected) == signature # expected

\* security.js:236: data.exp && Date.now() > data.exp. A value that is no
\* object has no exp; an exp that is no number compares as not a number.
Expired(data, t) ==
  /\ data.t = "obj"
  /\ Truthy(GetProp(data.v, T_exp))
  /\ GetProp(data.v, T_exp).t = "num"
  /\ t > GetProp(data.v, T_exp).v

\* security.js:213-244
VerifySecureToken(token, e, t) ==
  LET parts == SplitOn(token, ".")
      dataB64 == parts[1]
  IN IF dataB64 = <<>> \/ Len(parts) < 2 \/ parts[2] = <<>>
     THEN [valid |-> FALSE, error |-> "Invalid token format"]
     ELSE LET dataString == Utf8Decode(Base64Decode(dataB64))
              data == JsonParse(dataString)
          IN IF ~data.ok
             THEN [valid |-> FALSE, error |-> "Token verification failed"]
             ELSE IF SignatureDiffers(parts[2], HmacHex(TokenSecret(e), dataString))
             THEN [valid |-> FALSE, error |-> "Invalid signature"]
             ELSE IF data.val.t = "null"
             THEN [valid |-> FALSE, error |-> "Token verification failed"]
             ELSE IF Expired(data.val, t)
             THEN [valid |-> FALSE, error |-> "Token expired"]
             ELSE [valid |-> TRUE, data |-> data.val]

\* The claims the token specification signs.
PayloadSet ==
  { <<>>,
    <<Prop(<<"a">>, Str(<<"x">>))>>,
    <<Prop(T_exp, Num(7)), Prop(<<"n">>, Num(-3))>>,
    <<Prop(<<"s">>, Str(<<"q","\"","\\","\n">>))>>,
    <<Prop(<<"m">>, Obj(<<Prop(<<"k">>, Null), Prop(<<"b">>, Bool(TRUE))>>))>> }
\* Lifetimes in seconds: already expired, a second, an hour.
ExpiresInSet == {-5, -1, 1, 3600}
TokenDeltas == {1, 1000, 3600001}
\* What a changed character of the signature is changed to.
TamperChars == {"0", "."}

NoVerify == [tamper |-> "unset"]

\* The signature segment's first and last place in a token of the code.
SignatureStart(token) == Len(SplitOn(token, ".")[1]) + 2

\* token with the character at place i replaced by c
ReplaceAt(token, i, c) == [j \in 1..Len(token) |-> IF j = i THEN c ELSE token[j]]

\* ------------------------------------------------------- handlers: common

\* No request handled yet.
NoRequest == [endpoint |-> "none"]
NoResponse == [status |-> 0]
\* No function called on its own yet.
NotCalled == [fn |-> "none"]

T_unknown == <<"u","n","k","n","o","w","n">>
T_agency == <<"a","g","e","n","c","y">>

\* text.includes(part)
Contains(text, part) ==
  \E i \in 0..(Len(text) - Len(part)) : SubSeq(text, i + 1, i + Len(part)) = part

\* An evaluation ends in a value or in an exception.
Thrown(message) == [threw |-> TRUE, message |-> message]
Value(v) == [threw |-> FALSE, value |-> v]

\* req.headers['x-forwarded-for']?.split(',')[0] || req.headers['x-real-ip']
\*   || 'unknown'
ClientIp(headers) ==
  LET forwarded == IF headers.xff.t = "str"
                   THEN Str(SplitOn(headers.xff.v, ",")[1])
                   ELSE Undefined
  IN IF Truthy(forwarded) THEN forwarded.v
     ELSE IF Truthy(headers.xri) THEN headers.xri.v
     ELSE T_unknown

\* res.status(status).json(body) and res.status(status).end()
Json(status, body) == [status |-> status, json |-> TRUE, body |-> body]
End(status) == [status |-> status, json |-> FALSE, body |-> [ended |-> TRUE]]

\* What a handler did, in order.
Limited(identifier) == [op |-> "rateLimit", identifier |-> identifier]
Validated == [op |-> "validateInput"]
\* fetch(url, ...) and what the provider answered
Fetched(url, response) == [op |-> "fetch", url |-> url, answer |-> response]
\* logSecurityEvent(event, {ip, ...})
LogEvent(event, ip) == [op |-> "logSecurityEvent", event |-> event, ip |-> ip]

\* A handler's result: the limiter's store, the response, the trace.
Out(store, response, tr) == [store |-> store, res |-> response, trace |-> tr]

\* security.js:27-40 and 45-58: the headers every license handler sets first.
SecuredHeaders(r) ==
  [security |-> TRUE,
   allowOrigin |-> IF Truthy(r.headers.origin) THEN r.headers.origin.v ELSE <<"*">>,
   allowMethods |-> "POST, OPTIONS"]

\* A request body the platform has parsed: a record of its fields, or
\* undefined when the request has none. validateInput reads data[field], a
\* TypeError on undefined.
ValidateBody(body, schema) ==
  IF body.t # "obj"
  THEN [threw |-> TRUE, isValid |-> FALSE, errors |-> <<>>, data |-> << >>]
  ELSE ValidateInput(body.v, schema)

\* The payments provider's answer to POST /v1/licenses/validate: no answer
\* (fetch rejects), a refusal, or a license with its metadata.
LsDown == [reached |-> FALSE]
LsRefused == [reached |-> TRUE, ok |-> FALSE, status |-> 404]
LsLicense(status, expires_at, active_sites, variant_name) ==
  [reached |-> TRUE, ok |-> TRUE, status |-> 200,
   license |-> [status |-> status, expires_at |-> expires_at,
                active_sites |-> active_sites],
   meta |-> [variant_name |-> variant_name, customer_name |-> "Jane",
             customer_email |-> "jane@a.co"]]

\* license.expires_at is null or an instant; new Date(expires_at) < new Date()
LicenseExpired(license, t) ==
  Truthy(license.expires_at) /\ license.expires_at.v < t

\* meta.variant_name.toLowerCase().includes('agency')
Tier(meta) == IF Contains(ToLowerCase(meta.variant_name), T_agency) THEN "agency" ELSE "pro"
MaxActivations(tier) == IF tier = "agency" THEN 999999 ELSE 1
\* Math.max(0, maxActivations - activeSites.length), 999999 for agency
SitesRemaining(tier, activeSites) ==
  IF tier = "agency" THEN 999999
  ELSE IF MaxActivations(tier) - Len(activeSites) > 0
       THEN MaxActivations(tier) - Len(activeSites) ELSE 0

\* The identifier cleanSiteUrl, which validate-license.js and
\* activate-license.js read and no scope of either file declares: reading it
\* is a ReferenceError.
CleanSiteUrl == Thrown("cleanSiteUrl is not defined")

\* ------------------------------------------------------- validate-license

ValidateSchema ==
  << Rule("license_key", "string", TRUE, 500, 10, "none"),
     Rule("site_url", "url", TRUE, 0, 0, "none") >>

\* validate-license.js:168-175: the callback of activeSites.some
ValidateSiteMatches(site) ==
  IF site.t # "str" THEN Thrown("site.replace is not a function")
  ELSE LET cleanActiveSite == CleanSite(site.v)
       IN IF CleanSiteUrl.threw THEN CleanSiteUrl
          ELSE Value(cleanActiveSite = CleanSiteUrl.value)

\* activeSites.some(callback), from the i-th site on
RECURSIVE SomeSite(_, _)
SomeSite(activeSites, i) ==
  IF i > Len(activeSites) THEN Value(FALSE)
  ELSE LET m == ValidateSiteMatches(activeSites[i])
       IN IF m.threw \/ m.value THEN m ELSE SomeSite(activeSites, i + 1)

\* validate-license.js:199-214
ValidateCatch(store, e, clientIp, tr, message) ==
  Out(store,
      Json(500, IF e.NODE_ENV = "development"
                THEN [valid |-> FALSE,
                      message |-> "Internal server error during license validation",
                      error |-> message]
                ELSE [valid |-> FALSE,
                      message |-> "Internal server error during license validation"]),
      tr \o <<LogEvent("validation_error", clientIp)>>)

\* validate-license.js:122-197: the provider has answered with a license
ValidateAnswer(store, e, t, ls, clientIp, tr) ==
  LET license == ls.license
      tier == Tier(ls.meta)
      activeSites == license.active_sites
      isSiteActivated == SomeSite(activeSites, 1)
  IN IF license.status # "active"
     THEN Out(store, Json(200, [valid |-> FALSE,
                                message |-> <<"License is ", license.status>>,
                                data |-> [status |-> license.status,
                                          expires_at |-> license.expires_at]]), tr)
     ELSE IF LicenseExpired(license, t)
     THEN Out(store, Json(200, [valid |-> FALSE,
                                message |-> "License has expired. Please renew your subscription.",
                                data |-> [status |-> "expired",
                                          expires_at |-> license.expires_at]]), tr)
     ELSE IF isSiteActivated.threw
     THEN ValidateCatch(store, e, clientIp, tr, isSiteActivated.message)
     ELSE Out(store,
              Json(200, [valid |-> TRUE, message |-> "License is valid",
                         data |-> [tier |-> tier, status |-> license.status,
                                   expires_at |-> license.expires_at,
                                   max_activations |-> MaxActivations(tier),
                                   active_sites |-> activeSites,
                                   sites_remaining |-> SitesRemaining(tier, activeSites),
                                   is_site_activated |-> isSiteActivated.value,
                                   customer_name |-> ls.meta.customer_name,
                                   customer_email |-> ls.meta.customer_email]]), tr)

\* validate-license.js:56-197: the try block
ValidateTry(store, r, e, t, ls, clientIp, tr0) ==
  LET validation == ValidateBody(r.body, ValidateSchema)
      tr1 == tr0 \o <<Validated>>
      tr2 == tr1 \o <<Fetched("licenses/validate", ls)>>
  IN IF validation.threw
     THEN ValidateCatch(store, e, clientIp, tr1, "Cannot read properties")
     ELSE IF ~validation.isValid
     THEN Out(store, Json(400, [valid |-> FALSE, message |-> "Invalid input",
                                errors |-> validation.errors]),
              tr1 \o <<LogEvent("invalid_input", clientIp)>>)
     ELSE IF e.LEMON_SQUEEZY_API_KEY = 0
     THEN Out(store, Json(500, [valid |-> FALSE,
                                message |-> "License validation service not configured"]),
              tr1)
     ELSE IF ~ls.reached THEN ValidateCatch(store, e, clientIp, tr2, "fetch failed")
     ELSE IF ~ls.ok
     THEN Out(store, Json(400, [valid |-> FALSE, message |-> "Invalid license key"]), tr2)
     ELSE ValidateAnswer(store, e, t, ls, clientIp, tr2)

\* validate-license.js:21-215
ValidateLicense(store, r, e, t, ls) ==
  IF r.method = "OPTIONS" THEN Out(store, End(200), <<>>)
  ELSE IF r.method # "POST"
  THEN Out(store, Json(405, [valid |-> FALSE, message |-> "Method not allowed"]), <<>>)
  ELSE LET clientIp == ClientIp(r.headers)
           rl == RateLimit(store, clientIp, 20, 60000, t)
           tr0 == <<Limited(clientIp)>>
       IN IF ~rl.result.allowed
          THEN Out(rl.store,
                   Json(429, [valid |-> FALSE,
                              message |-> "Too many requests. Please try again later.",
                              retryAfter |-> rl.result.retryAfter]),
                   tr0 \o <<LogEvent("rate_limit_exceeded", clientIp)>>)
          ELSE ValidateTry(rl.store, r, e, t, ls, clientIp, tr0)

\* ------------------------------------------------------- activate-license

T_activate == <<"a","c","t","i","v","a","t","e",":">>
T_url == <<"u","r","l">>

ActivateSchema ==
  << Rule("license_key", "string", TRUE, 500, 10, "none"),
     Rule("site_url", "url", TRUE, 0, 0, "none"),
     Rule("site_name", "string", FALSE, 255, 0, "none") >>

\* activate-license.js:158-165: the callback of activeSites.find; a site is an
\* object with a url.
ActivateSiteMatches(site) ==
  IF site.t # "obj" \/ GetProp(site.v, T_url).t # "str"
  THEN Thrown("Cannot read properties of undefined (reading 'replace')")
  ELSE LET cleanActiveSite == CleanSite(GetProp(site.v, T_url).v)
       IN IF CleanSiteUrl.threw THEN CleanSiteUrl
          ELSE Value(cleanActiveSite = CleanSiteUrl.value)

\* activeSites.find(callback), from the i-th site on: the site found, or
\* undefined
RECURSIVE FindSite(_, _)
FindSite(activeSites, i) ==
  IF i > Len(activeSites) THEN Value(Undefined)
  ELSE LET m == ActivateSiteMatches(activeSites[i])
       IN IF m.threw THEN m
          ELSE IF m.value THEN Value(activeSites[i])
          ELSE FindSite(activeSites, i + 1)

\* activeSites.map(s => s.url)
SiteUrls(activeSites) ==
  [i \in 1..Len(activeSites) |->
     IF activeSites[i].t = "obj" THEN GetProp(activeSites[i].v, T_url) ELSE Undefined]

\* activate-license.js:248-263
ActivateCatch(store, e, clientIp, tr, message) ==
  Out(store,
      Json(500, IF e.NODE_ENV = "development"
                THEN [success |-> FALSE,
                      message |-> "Internal server error during license activation",
                      error |-> message]
                ELSE [success |-> FALSE,
                      message |-> "Internal server error during license activation"]),
      tr \o <<LogEvent("activation_error", clientIp)>>)

\* activate-license.js:192-246: the new activation and the provider's
\* activate endpoint; la is the provider's answer to it
ActivateNew(store, e, ls, la, clientIp, tr, tier, activeSites) ==
  LET tr3 == tr \o <<Fetched("licenses/activate", la)>>
  IN IF CleanSiteUrl.threw THEN ActivateCatch(store, e, clientIp, tr, CleanSiteUrl.message)
     ELSE IF ~la.reached THEN ActivateCatch(store, e, clientIp, tr3, "fetch failed")
     ELSE IF ~la.ok
     THEN Out(store, Json(500, [success |-> FALSE,
                                message |-> "Failed to activate license"]), tr3)
     ELSE Out(store,
              Json(200, [success |-> TRUE,
                         message |-> <<"License successfully activated on ",
                                       CleanSiteUrl.value>>,
                         data |-> [tier |-> tier,
                                   sites_remaining |->
                                     SitesRemaining(tier, Append(activeSites, Null)),
                                   expires_at |-> ls.license.expires_at]]), tr3)

\* activate-license.js:119-190: the provider has answered with a license
ActivateAnswer(store, e, t, ls, la, clientIp, tr) ==
  LET license == ls.license
      tier == Tier(ls.meta)
      activeSites == license.active_sites
      existingActivation == FindSite(activeSites, 1)
  IN IF license.status # "active"
     THEN Out(store, Json(400, [success |-> FALSE,
                                message |-> <<"Cannot activate. License is ",
                                              license.status>>]), tr)
     ELSE IF LicenseExpired(license, t)
     THEN Out(store, Json(400, [success |-> FALSE, message |-> "License has expired"]), tr)
     ELSE IF existingActivation.threw
     THEN ActivateCatch(store, e, clientIp, tr, existingActivation.message)
     ELSE IF Truthy(existingActivation.value)
     THEN Out(store,
              Json(200, [success |-> TRUE,
                         message |-> <<"License already activated on ", CleanSiteUrl.value>>,
                         data |-> [tier |-> tier,
                                   sites_remaining |-> SitesRemaining(tier, activeSites)]]),
              tr)
     ELSE IF tier = "pro" /\ Len(activeSites) >= MaxActivations(tier)
     THEN Out(store,
              Json(400, [success |-> FALSE,
                         message |-> <<"Activation limit reached. Pro licenses can only be activated on ",
                                       MaxActivations(tier),
                                       " site(s). Please deactivate from another site first.">>,
                         data |-> [max_activations |-> MaxActivations(tier),
                                   active_sites |-> SiteUrls(activeSites),
                                   upgrade_url |-> "https://authorkit.pro/pricing"]]),
              tr)
     ELSE ActivateNew(store, e, ls, la, clientIp, tr, tier, activeSites)

\* activate-license.js:52-246: the try block
ActivateTry(store, r, e, t, ls, la, clientIp, tr0) ==
  LET validation == ValidateBody(r.body, ActivateSchema)
      tr1 == tr0 \o <<Validated>>
      tr2 == tr1 \o <<Fetched("licenses/validate", ls)>>
  IN IF validation.threw
     THEN ActivateCatch(store, e, clientIp, tr1, "Cannot read properties")
     ELSE IF ~validation.isValid
     THEN Out(store, Json(400, [success |-> FALSE, message |-> "Invalid input",
                                errors |-> validation.errors]),
              tr1 \o <<LogEvent("invalid_input", clientIp)>>)
     ELSE IF e.LEMON_SQUEEZY_API_KEY = 0
     THEN Out(store, Json(500, [success |-> FALSE,
                                message |-> "License service not configured"]), tr1)
     ELSE IF ~ls.reached THEN ActivateCatch(store, e, clientIp, tr2, "fetch failed")
     ELSE IF ~ls.ok
     THEN Out(store, Json(400, [success |-> FALSE, message |-> "Invalid license key"]), tr2)
     ELSE ActivateAnswer(store, e, t, ls, la, clientIp, tr2)

\* activate-license.js:19-264
ActivateLicense(store, r, e, t, ls, la) ==
  IF r.method = "OPTIONS" THEN Out(store, End(200), <<>>)
  ELSE IF r.method # "POST"
  THEN Out(store, Json(405, [success |-> FALSE, message |-> "Method not allowed"]), <<>>)
  ELSE LET clientIp == ClientIp(r.headers)
           rl == RateLimit(store, T_activate \o clientIp, 10, 3600000, t)
           tr0 == <<Limited(T_activate \o clientIp)>>
       IN IF ~rl.result.allowed
          THEN Out(rl.store,
                   Json(429, [success |-> FALSE,
                              message |-> "Too many activation attempts. Please try again later.",
                              retryAfter |-> rl.result.retryAfter]),
                   tr0 \o <<LogEvent("rate_limit_exceeded", clientIp)>>)
          ELSE ActivateTry(rl.store, r, e, t, ls, la, clientIp, tr0)

\* ------------------------------------------------------- deactivate-license

T_deactivate == <<"d","e","a","c","t","i","v","a","t","e",":">>

DeactivateSchema ==
  << Rule("license_key", "string", TRUE, 500, 10, "none"),
     Rule("site_url", "url", FALSE, 0, 0, "none"),
     Rule("instance_id", "string", FALSE, 100, 0, "none") >>

\* part_007:258-273
DeactivateCatch(store, e, clientIp, tr, message) ==
  Out(store,
      Json(500, IF e.NODE_ENV = "development"
                THEN [success |-> FALSE,
                      message |-> "Internal server error during license deactivation",
                      error |-> message]
                ELSE [success |-> FALSE,
                      message |-> "Internal server error during license deactivation"]),
      tr \o <<LogEvent("deactivation_error", clientIp)>>)

\* part_007:162-256: the try block; ld is the provider's answer to
\* POST /v1/licenses/deactivate
DeactivateTry(store, r, e, ld, clientIp, tr0) ==
  LET validation == ValidateBody(r.body, DeactivateSchema)
      tr1 == tr0 \o <<Validated>>
      tr2 == tr1 \o <<Fetched("licenses/deactivate", ld)>>
  IN IF validation.threw
     THEN DeactivateCatch(store, e, clientIp, tr1, "Cannot read properties")
     ELSE IF ~validation.isValid
     THEN Out(store, Json(400, [success |-> FALSE, message |-> "Invalid input",
                                errors |-> validation.errors]),
              tr1 \o <<LogEvent("invalid_input", clientIp)>>)
     ELSE IF ~Truthy(validation.data["site_url"]) /\ ~Truthy(validation.data["instance_id"])
     THEN Out(store, Json(400, [success |-> FALSE,
                                message |-> "Either site_url or instance_id is required"]),
              tr1)
     ELSE IF e.LEMON_SQUEEZY_API_KEY = 0
     THEN Out(store, Json(500, [success |-> FALSE,
                                message |-> "License service not configured"]), tr1)
     ELSE IF ~ld.reached THEN DeactivateCatch(store, e, clientIp, tr2, "fetch failed")
     ELSE IF ~ld.ok /\ ld.status = 404
     THEN Out(store, Json(404, [success |-> FALSE,
                                message |-> "Activation not found for this site"]), tr2)
     ELSE IF ~ld.ok
     THEN Out(store, Json(500, [success |-> FALSE,
                                message |-> "Failed to deactivate license"]), tr2)
     ELSE Out(store,
              Json(200, [success |-> TRUE,
                         message |-> <<"License successfully deactivated from ",
                                       IF Truthy(validation.data["site_url"])
                                       THEN validation.data["site_url"].v
                                       ELSE <<"s","i","t","e">> >>,
                         data |-> [deactivated_at |-> "now"]]), tr2)

\* part_007:129-274
DeactivateLicense(store, r, e, t, ld) ==
  IF r.method = "OPTIONS" THEN Out(store, End(200), <<>>)
  ELSE IF r.method # "POST"
  THEN Out(store, Json(405, [success |-> FALSE, message |-> "Method not allowed"]), <<>>)
  ELSE LET clientIp == ClientIp(r.headers)
           rl == RateLimit(store, T_deactivate \o clientIp, 15, 3600000, t)
           tr0 == <<Limited(T_deactivate \o clientIp)>>
       IN IF ~rl.result.allowed
          THEN Out(rl.store,
                   Json(429, [success |-> FALSE,
                              message |-> "Too many deactivation attempts. Please try again later.",
                              retryAfter |-> rl.result.retryAfter]),
                   tr0 \o <<LogEvent("rate_limit_exceeded", clientIp)>>)
          ELSE DeactivateTry(rl.store, r, e, ld, clientIp, tr0)

\* ------------------------------------------------------------ check-update

T_update == <<"u","p","d","a","t","e",":">>
T_license_key == <<"l","i","c","e","n","s","e","_","k","e","y">>
T_plugin_slug == <<"p","l","u","g","i","n","_","s","l","u","g">>
T_site_url == <<"s","i","t","e","_","u","r","l">>
T_token == <<"?","t","o","k","e","n","=">>

UpdateSchema ==
  << Rule("license_key", "string", TRUE, 500, 10, "none"),
     Rule("plugin_slug", "string", TRUE, 100, 0, "slug"),
     Rule("current_version", "string", TRUE, 20, 0, "semver"),
     Rule("site_url", "url", TRUE, 0, 0, "none") >>

\* check-update.js:254-302: PLUGIN_VERSIONS[plugin_slug] is an entry of the
\* table, or a property the table inherits from Object.prototype (of the
\* names the slug pattern admits: constructor), which has no version, or
\* undefined.
PluginVersions(slug) ==
  IF slug = <<"a","u","t","h","o","r","k","i","t","-","p","r","o">>
  THEN [t |-> "obj", version |-> Str(<<"1",".","0",".","0">>),
        download_url |-> <<"h","t","t","p","s",":","/","/","a","u","t","h","o","r","k","i","t",".","p","r","o","/","d","o","w","n","l","o","a","d","s","/","a","u","t","h","o","r","k","i","t","-","p","r","o","-","1",".","0",".","0",".","z","i","p">>]
  ELSE IF slug = <<"a","u","t","h","o","r","k","i","t","-","a","g","e","n","c","y">>
  THEN [t |-> "obj", version |-> Str(<<"1",".","0",".","0">>),
        download_url |-> <<"h","t","t","p","s",":","/","/","a","u","t","h","o","r","k","i","t",".","p","r","o","/","d","o","w","n","l","o","a","d","s","/","a","u","t","h","o","r","k","i","t","-","a","g","e","n","c","y","-","1",".","0",".","0",".","z","i","p">>]
  ELSE IF slug = <<"c","o","n","s","t","r","u","c","t","o","r">>
  THEN [t |-> "obj", version |-> Undefined, download_url |-> <<>>]
  ELSE Undefined

\* Number(part) || 0 for a part of a version
PartNumber(part) == IF AllDigits(part) THEN NatValue(part) ELSE 0

\* check-update.js:511-519
RECURSIVE CompareFrom(_, _, _)
CompareFrom(parts1, parts2, i) ==
  IF i > Len(parts1) /\ i > Len(parts2) THEN 0
  ELSE LET part1 == IF i <= Len(parts1) THEN PartNumber(parts1[i]) ELSE 0
           part2 == IF i <= Len(parts2) THEN PartNumber(parts2[i]) ELSE 0
       IN IF part1 < part2 THEN -1
          ELSE IF part1 > part2 THEN 1
          ELSE CompareFrom(parts1, parts2, i + 1)

\* compareVersions with an equal version taken for a lower one
CompareVersionsOrEqual(v1, v2) ==
  IF v2.t # "str" THEN Thrown("Cannot read properties of undefined (reading 'split')")
  ELSE Value(IF CompareFrom(SplitOn(v1, "."), SplitOn(v2.v, "."), 1) <= 0 THEN -1 ELSE 1)

\* check-update.js:507-520: v2.split of a version that is undefined throws
CompareVersions(v1, v2) ==
  IF v2.t # "str" THEN Thrown("Cannot read properties of undefined (reading 'split')")
  ELSE Value(CompareFrom(SplitOn(v1, "."), SplitOn(v2.v, "."), 1))

UpperHexDigits == <<"0","1","2","3","4","5","6","7","8","9","A","B","C","D","E","F">>
\* The characters encodeURIComponent leaves as they are
Unreserved ==
  LowerLetters \cup Digits \cup {UpperSeq[i] : i \in 1..26}
    \cup {"-", "_", ".", "!", "~", "*", "'", "(", ")"}
RECURSIVE PercentBytes(_)
PercentBytes(bytes) ==
  IF bytes = <<>> THEN <<>>
  ELSE <<"%", UpperHexDigits[(Head(bytes) \div 16) + 1],
         UpperHexDigits[(Head(bytes) % 16) + 1]>> \o PercentBytes(Tail(bytes))
RECURSIVE EncodeURIComponent(_)
EncodeURIComponent(text) ==
  IF text = <<>> THEN <<>>
  ELSE IF Len(text) = 1
  THEN (IF text[1] \in Unreserved THEN text ELSE PercentBytes(Utf8(text[1])))
  ELSE EncodeURIComponent(SubSeq(text, 1, Len(text) \div 2))
         \o EncodeURIComponent(SubSeq(text, Len(text) \div 2 + 1, Len(text)))

\* check-update.js:485-500
UpdateCatch(store, e, clientIp, tr, message) ==
  Out(store,
      Json(500, IF e.NODE_ENV = "development"
                THEN [error |-> "Internal server error",
                      message |-> "Failed to check for updates", details |-> message]
                ELSE [error |-> "Internal server error",
                      message |-> "Failed to check for updates"]),
      tr \o <<LogEvent("update_check_error", clientIp)>>)

\* check-update.js:428-483: the license is active and has not expired
UpdateAnswer(store, e, t, clientIp, tr, data) ==
  LET plugin_slug == data["plugin_slug"].v
      current_version == data["current_version"].v
      latestVersion == PluginVersions(plugin_slug)
      compared == CompareVersions(current_version, latestVersion.version)
      downloadToken ==
        GenerateSecureToken(
          << Prop(T_license_key, Str(SubSeq(data["license_key"].v, 1,
                    IF Len(data["license_key"].v) < 16
                    THEN Len(data["license_key"].v) ELSE 16))),
             Prop(T_plugin_slug, Str(plugin_slug)),
             Prop(T_site_url, data["site_url"]) >>, 3600, e, t)
  IN IF ~Truthy(latestVersion)
     THEN Out(store, Json(404, [error |-> "Plugin not found",
                                message |-> <<"No update information available for ",
                                              plugin_slug>>]), tr)
     ELSE IF compared.threw THEN UpdateCatch(store, e, clientIp, tr, compared.message)
     ELSE IF ~(compared.value < 0)
     THEN Out(store, Json(200, [update_available |-> FALSE,
                                current_version |-> current_version,
                                latest_version |-> latestVersion.version.v,
                                message |-> "You have the latest version"]), tr)
     ELSE Out(store,
              Json(200, [update_available |-> TRUE, id |-> plugin_slug,
                         slug |-> plugin_slug,
                         plugin |-> plugin_slug \o <<"/">> \o plugin_slug \o <<".","p","h","p">>,
                         new_version |-> latestVersion.version.v,
                         url |-> "https://authorkit.pro",
                         package |-> latestVersion.download_url \o T_token
                                       \o EncodeURIComponent(downloadToken),
                         tested |-> "6.4", requires_php |-> "7.0"]),
              tr \o <<[op |-> "generateSecureToken", token |-> downloadToken]>>)

\* check-update.js:335-426: the try block up to the license checks
UpdateTry(store, r, e, t, ls, clientIp, tr0) ==
  LET validation == ValidateBody(r.body, UpdateSchema)
      tr1 == tr0 \o <<Validated>>
      tr2 == tr1 \o <<Fetched("licenses/validate", ls)>>
  IN IF validation.threw
     THEN UpdateCatch(store, e, clientIp, tr1, "Cannot read properties")
     ELSE IF ~validation.isValid
     THEN Out(store, Json(400, [error |-> "Invalid input", errors |-> validation.errors]),
              tr1 \o <<LogEvent("invalid_input", clientIp)>>)
     ELSE IF e.LEMON_SQUEEZY_API_KEY = 0
     THEN Out(store, Json(500, [error |-> "Update service not configured"]), tr1)
     ELSE IF ~ls.reached THEN UpdateCatch(store, e, clientIp, tr2, "fetch failed")
     ELSE IF ~ls.ok
     THEN Out(store, Json(403, [error |-> "Invalid license",
                                message |-> "Your license is not valid. Updates are only available for active licenses."]), tr2)
     ELSE IF ls.license.status # "active"
     THEN Out(store, Json(403, [error |-> "License inactive",
                                message |-> <<"Your license is ", ls.license.status>>]), tr2)
     ELSE IF LicenseExpired(ls.license, t)
     THEN Out(store, Json(403, [error |-> "License expired",
                                message |-> "Your license has expired. Please renew to receive updates."]), tr2)
     ELSE UpdateAnswer(store, e, t, clientIp, tr2, validation.data)

\* check-update.js:304-501
CheckUpdate(store, r, e, t, ls) ==
  IF r.method = "OPTIONS" THEN Out(store, End(200), <<>>)
  ELSE IF r.method # "POST"
  THEN Out(store, Json(405, [error |-> "Method not allowed"]), <<>>)
  ELSE LET clientIp == ClientIp(r.headers)
           rl == RateLimit(store, T_update \o clientIp, 30, 3600000, t)
           tr0 == <<Limited(T_update \o clientIp)>>
       IN IF ~rl.result.allowed
          THEN Out(rl.store,
                   Json(429, [error |-> "Too many requests",
                              retryAfter |-> rl.result.retryAfter]),
                   tr0 \o <<LogEvent("rate_limit_exceeded", clientIp)>>)
          ELSE UpdateTry(rl.store, r, e, t, ls, clientIp, tr0)

\* ----------------------------------------------------------- email-capture

\* supabase.js:57-69: the required fields that are missing, in order
RECURSIVE MissingFields(_, _)
MissingFields(payload, requiredFields) ==
  IF requiredFields = <<>> THEN <<>>
  ELSE (IF Truthy(Get(payload, Head(requiredFields))) THEN <<>>
        ELSE <<Head(requiredFields)>>) \o MissingFields(payload, Tail(requiredFields))

\* validatePayload(payload, requiredFields): an error object or null
ValidatePayload(payload, requiredFields) ==
  LET missing == MissingFields(payload, requiredFields)
  IN IF missing # <<>>
     THEN [success |-> FALSE, error |-> <<"Missing required fields: ", missing>>,
           code |-> "VALIDATION_ERROR"]
     ELSE Null

\* part_007:362: /^[^\s@]+@[^\s@]+\.[^\s@]+$/ tested on a text: no white
\* space, one @ that is not first, and after it a dot that is neither first
\* nor last
EmailRegexTest(text) ==
  /\ \A i \in 1..Len(text) : ~IsSpace(text[i])
  /\ Cardinality({i \in 1..Len(text) : text[i] = "@"}) = 1
  /\ LET at == CHOOSE i \in 1..Len(text) : text[i] = "@"
     IN /\ at > 1
        /\ \E j \in (at + 2)..(Len(text) - 1) : text[j] = "."

\* emailRegex.test(email) converts a value that is no string to text first;
\* of the values the model sends, none of those texts is an address.
EmailTest(email) == email.t = "str" /\ EmailRegexTest(email.v)

\* supabase.js:43-49
FormatSupabaseError(error) ==
  [success |-> FALSE, error |-> error.message, code |-> error.code]

\* .from('email_subscribers').select().eq('email', ..).eq('site_url', ..)
\* .single(): the one row that matches, or null
SelectSubscriber(table, email, site_url) ==
  LET found == {row \in table.rows : row.email = email /\ row.site_url = site_url}
  IN IF Cardinality(found) = 1 THEN CHOOSE row \in found : TRUE ELSE Null

\* part_007:391-402 and part_003:8-35: the row an insert adds. The table
\* refuses a second row with the same email and site_url (unique_email_per_site)
\* and the id sequence advances either way.
InsertSubscriber(table, payload, t) ==
  LET id == table.seq + 1
      row == [id |-> id, email |-> payload["email"], site_url |-> payload["site_url"],
              site_name |-> payload["site_name"],
              type |-> IF Get(payload, "type") = Undefined THEN Str(<<"f","r","e","e">>)
                       ELSE payload["type"],
              subscribed_at |-> t, active |-> TRUE]
  IN IF \E old \in table.rows : old.email = row.email /\ old.site_url = row.site_url
     THEN [table |-> [table EXCEPT !.seq = id],
           data |-> Null,
           error |-> [message |-> "duplicate key value violates unique constraint \"unique_email_per_site\"",
                      code |-> "23505"]]
     ELSE [table |-> [rows |-> table.rows \cup {row}, seq |-> id],
           data |-> row, error |-> Null]

\* part_007:422-432
EmailCatch(store, e, tr, message) ==
  Out(store,
      Json(500, IF e.NODE_ENV = "development"
                THEN [success |-> FALSE, error |-> "Internal server error",
                      message |-> message]
                ELSE [success |-> FALSE, error |-> "Internal server error"]),
      tr)

\* part_007:305-386: the handler up to the answer of the select; awaiting
\* tells whether it goes on to insert
EmailCaptureSelect(store, r, e, t, table) ==
  IF r.method = "OPTIONS" THEN [out |-> Out(store, End(200), <<>>), awaiting |-> FALSE]
  ELSE IF r.method # "POST"
  THEN [out |-> Out(store, Json(405, [success |-> FALSE,
                                      error |-> "Method not allowed. Use POST."]), <<>>),
        awaiting |-> FALSE]
  ELSE
    LET clientIp == ClientIp(r.headers)
        rl == RateLimit(store, clientIp, 10, 3600000, t)
        tr0 == <<Limited(clientIp)>>
        validationError == ValidatePayload(r.body.v, <<"email", "site_url", "site_name">>)
        tr1 == tr0 \o <<[op |-> "supabase", query |-> "select"]>>
    IN IF ~rl.result.allowed
       THEN [out |-> Out(rl.store,
                         Json(429, [success |-> FALSE,
                                    error |-> "Too many requests. Please try again later.",
                                    retryAfter |-> rl.result.retryAfter]),
                         tr0 \o <<LogEvent("rate_limit_exceeded", clientIp)>>),
             awaiting |-> FALSE]
       ELSE IF r.body.t # "obj"
       THEN [out |-> EmailCatch(rl.store, e, tr0, "Cannot read properties of undefined"),
             awaiting |-> FALSE]
       ELSE IF validationError # Null
       THEN [out |-> Out(rl.store, Json(400, validationError), tr0), awaiting |-> FALSE]
       ELSE IF ~EmailTest(r.body.v["email"])
       THEN [out |-> Out(rl.store, Json(400, [success |-> FALSE,
                                              error |-> "Invalid email address",
                                              code |-> "VALIDATION_ERROR"]), tr0),
             awaiting |-> FALSE]
       ELSE IF SelectSubscriber(table, r.body.v["email"], r.body.v["site_url"]) # Null
       THEN [out |-> Out(rl.store, Json(200, [success |-> TRUE,
                                              message |-> "Email already subscribed",
                                              already_subscribed |-> TRUE]), tr1),
             awaiting |-> FALSE]
       ELSE [out |-> Out(rl.store, NoResponse, tr1), awaiting |-> TRUE]

\* part_007:388-420: the insert and the answer to it
EmailCaptureInsert(r, t, table) ==
  LET inserted == InsertSubscriber(table, r.body.v, t)
      tr == <<[op |-> "supabase", query |-> "insert"]>>
  IN [table |-> inserted.table,
      res |-> IF inserted.error # Null
              THEN Json(500, FormatSupabaseError(inserted.error))
              ELSE Json(200, [success |-> TRUE,
                              message |-> "Email subscription recorded successfully",
                              subscriber_id |-> inserted.data.id]),
      trace |-> tr]

\* ----------------------------------------------------------------- webhook

T_meta == <<"m","e","t","a">>
T_event_name == <<"e","v","e","n","t","_","n","a","m","e">>
T_data == <<"d","a","t","a">>
T_attributes == <<"a","t","t","r","i","b","u","t","e","s">>

\* lemon-squeezy.js:24-35: data += chunk decodes every chunk of the request
\* stream on its own and joins the texts
RECURSIVE GetRawBody(_)
GetRawBody(chunks) ==
  IF chunks = <<>> THEN <<>>
  ELSE Utf8Decode(Head(chunks)) \o GetRawBody(Tail(chunks))

\* The bytes the sender put on the wire
RECURSIVE WireBytes(_)
WireBytes(chunks) ==
  IF chunks = <<>> THEN <<>> ELSE Head(chunks) \o WireBytes(Tail(chunks))

\* value.name, for a value that is not null or undefined
Member(value, name) ==
  IF value.t = "obj" THEN GetProp(value.v, name) ELSE Undefined

\* lemon-squeezy.js:91-138: the handler the switch calls for an event name
EventHandler(eventName) ==
  IF eventName = Str(<<"o","r","d","e","r","_","c","r","e","a","t","e","d">>) THEN "handleOrderCreated"
  ELSE IF eventName = Str(<<"o","r","d","e","r","_","r","e","f","u","n","d","e","d">>) THEN "handleOrderRefunded"
  ELSE IF eventName = Str(<<"s","u","b","s","c","r","i","p","t","i","o","n","_","c","r","e","a","t","e","d">>) THEN "handleSubscriptionCreated"
  ELSE IF eventName = Str(<<"s","u","b","s","c","r","i","p","t","i","o","n","_","u","p","d","a","t","e","d">>) THEN "handleSubscriptionUpdated"
  ELSE IF eventName = Str(<<"s","u","b","s","c","r","i","p","t","i","o","n","_","c","a","n","c","e","l","l","e","d">>) THEN "handleSubscriptionCancelled"
  ELSE IF eventName = Str(<<"s","u","b","s","c","r","i","p","t","i","o","n","_","r","e","s","u","m","e","d">>) THEN "handleSubscriptionResumed"
  ELSE IF eventName = Str(<<"s","u","b","s","c","r","i","p","t","i","o","n","_","e","x","p","i","r","e","d">>) THEN "handleSubscriptionExpired"
  ELSE IF eventName = Str(<<"s","u","b","s","c","r","i","p","t","i","o","n","_","p","a","y","m","e","n","t","_","s","u","c","c","e","s","s">>)
  THEN "handleSubscriptionPaymentSuccess"
  ELSE IF eventName = Str(<<"s","u","b","s","c","r","i","p","t","i","o","n","_","p","a","y","m","e","n","t","_","f","a","i","l","e","d">>)
  THEN "handleSubscriptionPaymentFailed"
  ELSE IF eventName = Str(<<"l","i","c","e","n","s","e","_","k","e","y","_","c","r","e","a","t","e","d">>) THEN "handleLicenseKeyCreated"
  ELSE IF eventName = Str(<<"l","i","c","e","n","s","e","_","k","e","y","_","u","p","d","a","t","e","d">>) THEN "handleLicenseKeyUpdated"
  ELSE "none"

\* lemon-squeezy.js:165-289: every event handler reads data.id and
\* data.attributes.<name>, a TypeError when data or data.attributes is null
\* or undefined
HandlerThrows(data) ==
  \/ data.t \in {"undefined", "null"}
  \/ Member(data, T_attributes).t \in {"undefined", "null"}

\* lemon-squeezy.js:146-160
WebhookCatch(e, clientIp, tr, message) ==
  [res |-> Json(500, IF e.NODE_ENV = "development"
                     THEN [error |-> "Webhook processing failed", message |-> message]
                     ELSE [error |-> "Webhook processing failed"]),
   trace |-> tr \o <<LogEvent("webhook_processing_error", clientIp)>>]

\* lemon-squeezy.js:83-144: parse and dispatch
WebhookProcess(e, clientIp, rawBody, tr) ==
  LET parsed == JsonParse(rawBody)
      tr1 == tr \o <<[op |-> "JSON.parse"]>>
      event == parsed.val
      eventName == IF Member(event, T_meta).t \in {"undefined", "null"} THEN Undefined
                   ELSE Member(Member(event, T_meta), T_event_name)
      eventData == Member(event, T_data)
      handler == EventHandler(eventName)
      tr2 == tr1 \o <<[op |-> "dispatch", handler |-> handler]>>
  IN IF ~parsed.ok THEN WebhookCatch(e, clientIp, tr1, "Unexpected token")
     ELSE IF event.t = "null"
     THEN WebhookCatch(e, clientIp, tr1, "Cannot read properties of null (reading 'meta')")
     ELSE IF handler = "none"
     THEN [res |-> Json(200, [received |-> TRUE, event |-> eventName]), trace |-> tr1]
     ELSE IF HandlerThrows(eventData)
     THEN WebhookCatch(e, clientIp, tr2, "Cannot read properties of undefined")
     ELSE [res |-> Json(200, [received |-> TRUE, event |-> eventName]), trace |-> tr2]

\* lemon-squeezy.js:37-161
Webhook(r, e) ==
  LET clientIp == ClientIp(r.headers)
      signature == r.headers.signature
      webhookSecret == e.LEMON_SQUEEZY_WEBHOOK_SECRET
      rawBody == GetRawBody(r.chunks)
      expectedSignature == HmacHex(webhookSecret, rawBody)
  IN IF r.method # "POST"
     THEN [res |-> Json(405, [error |-> "Method not allowed"]), trace |-> <<>>]
     ELSE IF webhookSecret = 0
     THEN [res |-> Json(500, [error |-> "Webhook not configured"]),
           trace |-> <<LogEvent("webhook_config_error", clientIp)>>]
     ELSE IF Truthy(signature)
     THEN IF signature.v # expectedSignature
          THEN [res |-> Json(401, [error |-> "Invalid signature"]),
                trace |-> <<LogEvent("webhook_invalid_signature", clientIp)>>]
          ELSE WebhookProcess(e, clientIp, rawBody, <<>>)
     ELSE IF e.NODE_ENV = "production"
     THEN [res |-> Json(401, [error |-> "Missing signature"]),
           trace |-> <<LogEvent("webhook_missing_signature", clientIp)>>]
     ELSE WebhookProcess(e, clientIp, rawBody, <<>>)

\* ---------------------------------------------------------- bookshelf/books

\* Not a number
NaN == [t |-> "nan"]

\* A query parameter given more than once: an array of texts
Arr(texts) == [t |-> "arr", v |-> texts]

RECURSIVE JoinComma(_)
JoinComma(texts) ==
  IF texts = <<>> THEN <<>>
  ELSE IF Len(texts) = 1 THEN texts[1]
  ELSE texts[1] \o <<",">> \o JoinComma(Tail(texts))

\* String(value) for the values a query parameter or its default may be
ToText(value) ==
  CASE value.t = "str" -> value.v
    [] value.t = "num" -> NumberText(value.v)
    [] value.t = "arr" -> JoinComma(value.v)

HexValue(c) == (CHOOSE i \in 1..16 : HexDigits[i] = LowerChar(c)) - 1
IsHexDigit(c) == \E i \in 1..16 : HexDigits[i] = LowerChar(c)
RECURSIVE ScanHex(_, _)
ScanHex(s, i) == IF i <= Len(s) /\ IsHexDigit(s[i]) THEN ScanHex(s, i + 1) ELSE i
RECURSIVE HexNatValue(_)
HexNatValue(s) ==
  IF s = <<>> THEN 0 ELSE HexNatValue(DropLast(s, 1)) * 16 + HexValue(s[Len(s)])

\* The integer at the start of text s, which has no white space in front: a
\* sign, then the digits up to the first character that is none (hexadecimal
\* after 0x); NaN without a digit
ParseIntText(s, neg, from, hex) ==
  IF hex
  THEN IF ScanHex(s, from + 2) = from + 2 THEN NaN
       ELSE Num((IF neg THEN -1 ELSE 1)
                * HexNatValue(SubSeq(s, from + 2, ScanHex(s, from + 2) - 1)))
  ELSE IF ScanDigits(s, from) = from THEN NaN
       ELSE Num((IF neg THEN -1 ELSE 1)
                * NatValue(SubSeq(s, from, ScanDigits(s, from) - 1)))

\* The text s read from its sign on; from is the place after the sign
ParseIntSigned(s, from) ==
  ParseIntText(s, s # <<>> /\ s[1] = "-", from,
               Len(s) >= from + 1 /\ s[from] = "0" /\ s[from + 1] \in {"x", "X"})

\* parseInt(value): String(value) with the white space in front skipped
ParseIntOf(s) == ParseIntSigned(s, IF s # <<>> /\ s[1] \in {"-", "+"} THEN 2 ELSE 1)
ParseInt(value) == ParseIntOf(TrimStart(ToText(value)))

\* n || fallback
NumberOr(n, fallback) == IF Truthy(n) THEN n.v ELSE fallback
\* parseInt(value) || fallback
ParseIntOr(value, fallback) == NumberOr(ParseInt(value), fallback)

Maximum(a, b) == IF a >= b THEN a ELSE b
Minimum(a, b) == IF a <= b THEN a ELSE b

\* books.js:37-48: page = 1 and limit = 20 when the query has none
PageNum(query) ==
  Maximum(1, ParseIntOr(IF query.page = Undefined THEN Num(1) ELSE query.page, 1))
\* The limit without its ceiling of 100
LimitNumUncapped(query) ==
  Maximum(1, ParseIntOr(IF query.limit = Undefined THEN Num(20) ELSE query.limit, 20))
LimitNum(query) ==
  Minimum(100, Maximum(1, ParseIntOr(IF query.limit = Undefined THEN Num(20)
                                     ELSE query.limit, 20)))

\* books.js:114-137: a row as the response shows it; JSON.parse(book.formats)
\* of a text that is no JSON throws
FormatBook(book) ==
  IF ~Truthy(book.formats) THEN Value([id |-> book.id, formats |-> <<>>])
  ELSE IF ~JsonParse(book.formats.v).ok THEN Thrown("Unexpected token")
  ELSE Value([id |-> book.id, formats |-> JsonParse(book.formats.v).val])

\* books.map(callback), from the i-th row on
RECURSIVE FormatBooks(_, _)
FormatBooks(books, i) ==
  IF i > Len(books) THEN Value(<<>>)
  ELSE LET first == FormatBook(books[i])
           rest == FormatBooks(books, i + 1)
       IN IF first.threw THEN first
          ELSE IF rest.threw THEN rest
          ELSE Value(<<first.value>> \o rest.value)

\* count || 0
CountOr0(count) == IF Truthy(count) THEN count.v ELSE 0

\* books.js:172-179
BooksCatch(tr, message) ==
  [res |-> Json(500, [success |-> FALSE, error |-> "Internal server error",
                      message |-> message]),
   trace |-> tr]

\* books.js:50-171: the query and the answer, for the page and the limit
\* the handler computed
BooksPage(db, stats, pageNum, limitNum, offset, formattedBooks) ==
  IF db.error # Null
  THEN [res |-> Json(500, FormatSupabaseError(db.error)),
        trace |-> <<[op |-> "supabase", query |-> "select",
                     range |-> <<offset, offset + limitNum - 1>>, answer |-> db]>>]
  ELSE IF formattedBooks.threw
  THEN BooksCatch(<<[op |-> "supabase", query |-> "select",
                     range |-> <<offset, offset + limitNum - 1>>, answer |-> db]>>,
                  formattedBooks.message)
  ELSE [res |-> Json(200, [success |-> TRUE,
                           books |-> formattedBooks.value,
                           pagination |-> [page |-> pageNum, limit |-> limitNum,
                                           total |-> CountOr0(db.count),
                                           pages |-> Ceil(CountOr0(db.count), limitNum)],
                           stats |-> [total_books |-> CountOr0(stats.count),
                                      total_authors |-> stats.authors]]),
        trace |-> <<[op |-> "supabase", query |-> "select",
                     range |-> <<offset, offset + limitNum - 1>>, answer |-> db],
                    [op |-> "supabase", query |-> "count"],
                    [op |-> "supabase", query |-> "authors"]>>]

\* books.js:46-48: offset = (pageNum - 1) * limitNum
BooksRange(db, stats, pageNum, limitNum) ==
  BooksPage(db, stats, pageNum, limitNum, (pageNum - 1) * limitNum, FormatBooks(db.data, 1))

\* books.js:27-181; db is the database's answer to the range query, stats
\* its answers to the two statistics queries
Books(r, db, stats) ==
  IF r.method # "GET"
  THEN [res |-> Json(405, [success |-> FALSE, error |-> "Method not allowed. Use GET."]),
        trace |-> <<>>]
  ELSE BooksRange(db, stats, PageNum(r.query), LimitNum(r.query))

\* ------------------------------------------------- bookshelf: POST handlers

\* The catch block of the bookshelf handlers: error.message in every deployment
BookshelfCatch(tr, message) ==
  [res |-> Json(500, [success |-> FALSE, error |-> "Internal server error",
                      message |-> message]),
   trace |-> tr]

\* The head of every POST handler of the bookshelf: the method, then the body
\* (payload[field] of an undefined body is a TypeError), then validatePayload.
\* The answer it gives, or Null when the handler goes on to the database.
BookshelfHead(r, requiredFields) ==
  IF r.method # "POST"
  THEN [res |-> Json(405, [success |-> FALSE, error |-> "Method not allowed. Use POST."]),
        trace |-> <<>>]
  ELSE IF r.body.t # "obj"
  THEN BookshelfCatch(<<>>, "Cannot read properties of undefined")
  ELSE IF ValidatePayload(r.body.v, requiredFields) # Null
  THEN [res |-> Json(400, ValidatePayload(r.body.v, requiredFields)), trace |-> <<>>]
  ELSE Null

Query(query, answer) == [op |-> "supabase", query |-> query, answer |-> answer]

\* part_006:23-81: POST /api/bookshelf/register; db is the answer to the upsert
Register(r, db) ==
  LET head == BookshelfHead(r, <<"site_url", "site_name">>)
      tr == <<Query("upsert site", db)>>
  IN IF head # Null THEN head
     ELSE IF db.error # Null THEN [res |-> Json(500, FormatSupabaseError(db.error)), trace |-> tr]
     ELSE IF db.data = Null THEN BookshelfCatch(tr, "Cannot read properties of null")
     ELSE [res |-> Json(200, [success |-> TRUE, site_id |-> db.data.id,
                              message |-> "Site registered successfully"]),
           trace |-> tr]

\* part_005:23-92: POST /api/bookshelf/deregister; db holds the answers to
\* the count, the delete and the update
Deregister(r, db) ==
  LET head == BookshelfHead(r, <<"site_url">>)
      tr1 == <<Query("count books", db.count), Query("delete books", db.deleted)>>
      tr2 == tr1 \o <<Query("update site", db.updated)>>
  IN IF head # Null THEN head
     ELSE IF db.deleted.error # Null
     THEN [res |-> Json(500, FormatSupabaseError(db.deleted.error)), trace |-> tr1]
     ELSE IF db.updated.error # Null
     THEN [res |-> Json(500, FormatSupabaseError(db.updated.error)), trace |-> tr2]
     ELSE [res |-> Json(200, [success |-> TRUE, books_removed |-> CountOr0(db.count.count),
                              message |-> "Site deregistered successfully"]),
           trace |-> tr2]

\* sync.js:112-119: the genres stored: the non-empty ones, two at most
GenreRecords(payload, bookId) ==
  LET genres == Get(payload, "bookshelf_genres")
      kept == IF genres.t = "arr" THEN SelectSeq(genres.v, LAMBDA g : g # <<>>) ELSE <<>>
      two == SubSeq(kept, 1, Minimum(2, Len(kept)))
  IN [i \in 1..Len(two) |-> [book_id |-> bookId, genre_slug |-> two[i]]]

\* sync.js:19-152: POST /api/bookshelf/sync; db holds the answers to the
\* upsert of the site and to the upsert of the book
Sync(r, db) ==
  LET head == BookshelfHead(r, <<"site_url", "site_name", "book_post_id", "title">>)
      tr1 == <<Query("upsert site", db.site)>>
      tr2 == tr1 \o <<Query("upsert book", db.book)>>
      bookId == db.book.data.id
      genreRecords == GenreRecords(r.body.v, bookId)
      tr3 == tr2 \o <<[op |-> "supabase", query |-> "delete genres"]>>
      tr4 == IF genreRecords # <<>>
             THEN tr3 \o <<[op |-> "supabase", query |-> "insert genres",
                            rows |-> genreRecords]>>
             ELSE tr3
  IN IF head # Null THEN head
     ELSE IF db.site.error # Null
     THEN [res |-> Json(500, FormatSupabaseError(db.site.error)), trace |-> tr1]
     ELSE IF db.book.error # Null
     THEN [res |-> Json(500, FormatSupabaseError(db.book.error)), trace |-> tr2]
     ELSE [res |-> Json(200, [success |-> TRUE, book_id |-> bookId,
                              message |-> "Book synced successfully"]),
           trace |-> tr4]

\* books.js:204-251: POST /api/bookshelf/remove; db is the answer to the delete
Remove(r, db) ==
  LET head == BookshelfHead(r, <<"site_url", "book_post_id">>)
      tr == <<Query("delete book", db)>>
  IN IF head # Null THEN head
     ELSE IF db.error # Null THEN [res |-> Json(500, FormatSupabaseError(db.error)), trace |-> tr]
     ELSE [res |-> Json(200, [success |-> TRUE, message |-> "Book removed successfully"]),
           trace |-> tr]

\* ------------------------------------------ the bookshelf's tables and races

\* Requests per behaviour of the specification of the bookshelf's tables
MaxShelfRequests == 2

\* upsert into bookshelf_sites, onConflict site_url
UpsertSite(tables, site_url) ==
  [tables EXCEPT !.sites = {s \in @ : s.site_url # site_url}
                             \cup {[site_url |-> site_url, active |-> TRUE]}]

\* The stored book of a site's post
BookOf(tables, site_url, book_post_id) ==
  {b \in tables.books : b.site_url = site_url /\ b.book_post_id = book_post_id}

\* upsert into bookshelf_books, onConflict site_url,book_post_id: the row
\* keeps its id; a new row takes the next id of the sequence. The upsert is
\* refused when the site has no row (supabase-schema.sql: site_url references
\* bookshelf_sites).
UpsertBook(tables, site_url, book_post_id) ==
  IF ~\E s \in tables.sites : s.site_url = site_url
  THEN [tables |-> tables,
        error |-> [message |-> "violates foreign key constraint", code |-> "23503"],
        data |-> Null]
  ELSE IF BookOf(tables, site_url, book_post_id) # {}
  THEN [tables |-> tables, error |-> Null,
        data |-> CHOOSE b \in BookOf(tables, site_url, book_post_id) : TRUE]
  ELSE [tables |-> [tables EXCEPT !.seq = @ + 1,
                                  !.books = @ \cup {[id |-> tables.seq + 1,
                                                     site_url |-> site_url,
                                                     book_post_id |-> book_post_id]}],
        error |-> Null,
        data |-> [id |-> tables.seq + 1, site_url |-> site_url,
                  book_post_id |-> book_post_id]]

\* delete from bookshelf_book_genres where book_id = bookId
DeleteGenres(tables, bookId) ==
  [tables EXCEPT !.genres = {g \in @ : g.book_id # bookId}]

\* insert into bookshelf_book_genres: all rows or none. The table's primary
\* key is (book_id, genre_slug) and book_id references bookshelf_books
\* (supabase-schema.sql:53-57).
InsertGenres(tables, rows) ==
  LET new == {rows[i] : i \in 1..Len(rows)}
  IN IF \/ Cardinality(new) < Len(rows)
        \/ new \cap tables.genres # {}
        \/ \E g \in new : ~\E b \in tables.books : b.id = g.book_id
     THEN [tables |-> tables,
           error |-> [message |-> "constraint violated", code |-> "23505"]]
     ELSE [tables |-> [tables EXCEPT !.genres = @ \cup new], error |-> Null]

\* The books of a site
BooksOfSite(tables, site_url) == {b \in tables.books : b.site_url = site_url}

\* delete from bookshelf_books where site_url; ON DELETE CASCADE removes the
\* genres of the deleted books
DeleteBooks(tables, site_url) ==
  [tables EXCEPT !.books = @ \ BooksOfSite(tables, site_url),
                 !.genres = {g \in @ : \A b \in BooksOfSite(tables, site_url) :
                                         g.book_id # b.id}]

\* update bookshelf_sites set active = false where site_url
DeactivateSite(tables, site_url) ==
  [tables EXCEPT !.sites = {IF s.site_url = site_url
                            THEN [s EXCEPT !.active = FALSE] ELSE s : s \in @}]

\* ------------------------------------------------------------------ state

\* Nothing has been asked of the function instance since the clock's start.
\* No site has registered with the bookshelf.
NoShelf == [sites |-> {}, books |-> {}, genres |-> {}, seq |-> 0]

\* Nothing has run yet; the bookshelf's tables are as the deployment finds them.
Unstarted ==
  /\ now = StartTime
  /\ ticks = 0
  /\ steps = 0
  /\ rlLast = NoCall
  /\ rlWindow = << >>
  /\ issued = {}
  /\ verified = NoVerify
  /\ req = NoRequest
  /\ res = NoResponse
  /\ trace = <<>>
  /\ subscribers = [rows |-> {}, seq |-> 0]
  /\ pending = {}
  /\ call = NotCalled

Idle == Unstarted /\ shelf = NoShelf

\* The module's state when a function instance has loaded it.
Loaded == Idle /\ rateLimitStore = << >>

\* process.env of a deployment: the environment flag ("" when unset) and the
\* secrets (a secret is a number, 0 when unset).
Env(nodeEnv, tokenSecret, apiKey, webhookSecret) ==
  [NODE_ENV |-> nodeEnv, DOWNLOAD_TOKEN_SECRET |-> tokenSecret,
   LEMON_SQUEEZY_API_KEY |-> apiKey, LEMON_SQUEEZY_WEBHOOK_SECRET |-> webhookSecret]

InitRL ==
  /\ Loaded
  /\ env = Env("production", 7, 5, 9)

\* Time passes between operations.
Tick ==
  /\ ticks < MaxTicks
  /\ \E d \in Deltas : now' = now + d
  /\ ticks' = ticks + 1
  /\ UNCHANGED <<steps, rlVars, env, tokVars, apiVars, call>>

\* One call of rateLimit(identifier, maxRequests, windowMs).
RateLimitCall ==
  /\ steps < MaxCalls
  /\ \E identifier \in Identifiers, maxRequests \in MaxRequestsSet,
        windowMs \in WindowMsSet :
       LET r == RateLimit(rateLimitStore, identifier, maxRequests, windowMs, now)
       IN /\ rateLimitStore' = r.store
          /\ rlLast' = [identifier |-> identifier, maxRequests |-> maxRequests,
                        windowMs |-> windowMs, at |-> now, result |-> r.result]
          /\ rlWindow' = TrackCall(rlWindow, identifier, maxRequests, windowMs, now)
  /\ steps' = steps + 1
  /\ UNCHANGED <<now, ticks, env, tokVars, apiVars, call>>

vars == <<now, ticks, steps, rateLimitStore, rlLast, rlWindow, env, issued, verified,
          req, res, trace, subscribers, pending, shelf, call>>

NextRL == Tick \/ RateLimitCall

SpecRL == InitRL /\ [][NextRL]_vars

\* ------------------------------------------- the limiter with clients retrying

\* The last instant the clock of this specification reaches.
Horizon == 7000
\* Its clock advances: half a second, a second.
RetryDeltas == {500, 1000}

\* Time passes, up to the horizon.
ClockAdvances ==
  /\ \E d \in RetryDeltas : now + d <= Horizon /\ now' = now + d
  /\ UNCHANGED <<ticks, steps, rlVars, env, tokVars, apiVars, call>>

\* The client identifier calls rateLimit, as often as it likes.
Retry(identifier) ==
  /\ \E maxRequests \in MaxRequestsSet, windowMs \in WindowMsSet :
       LET r == RateLimit(rateLimitStore, identifier, maxRequests, windowMs, now)
       IN /\ rateLimitStore' = r.store
          /\ rlLast' = [identifier |-> identifier, maxRequests |-> maxRequests,
                        windowMs |-> windowMs, at |-> now, result |-> r.result]
  /\ UNCHANGED <<now, ticks, steps, rlWindow, env, tokVars, apiVars, call>>

NextRetry == ClockAdvances \/ \E identifier \in Identifiers : Retry(identifier)

\* The clock does not stop, and every client calls again and again.
SpecRetry ==
  /\ InitRL /\ [][NextRetry]_vars
  /\ WF_vars(ClockAdvances)
  /\ \A identifier \in Identifiers : WF_vars(Retry(identifier))

\* ---------------------------------------------------- the token specification

InitToken ==
  /\ Loaded
  /\ env \in {Env("production", 7, 5, 9), Env("production", 0, 5, 9)}

TokenTick ==
  /\ ticks < MaxTokenTicks
  /\ \E d \in TokenDeltas : now' = now + d
  /\ ticks' = ticks + 1
  /\ UNCHANGED <<steps, rlVars, env, tokVars, apiVars, call>>

\* generateSecureToken(payload, expiresIn). The two functions keep no state
\* of their own, so a behaviour issues one token and verifies it once.
Generate ==
  /\ issued = {}
  /\ \E payload \in PayloadSet, expiresIn \in ExpiresInSet :
       issued' = issued \cup
         {[token |-> GenerateSecureToken(payload, expiresIn, env, now),
           payload |-> payload, expiresIn |-> expiresIn, at |-> now]}
  /\ steps' = steps + 1
  /\ UNCHANGED <<now, ticks, rlVars, env, verified, apiVars, call>>

\* verifySecureToken(token) of a token the code issued
Verify ==
  /\ verified = NoVerify
  /\ \E origin \in issued :
       verified' = [origin |-> origin, tamper |-> "none", token |-> origin.token,
                    at |-> now,
                    result |-> VerifySecureToken(origin.token, env, now)]
  /\ steps' = steps + 1
  /\ UNCHANGED <<now, ticks, rlVars, env, issued, apiVars, call>>

\* verifySecureToken(token) of an issued token with one character of its
\* signature segment changed
VerifyTampered ==
  /\ verified = NoVerify
  /\ \E origin \in issued :
       \E i \in SignatureStart(origin.token)..Len(origin.token), c \in TamperChars :
         /\ origin.token[i] # c
         /\ verified' = [origin |-> origin, tamper |-> "signature",
                         token |-> ReplaceAt(origin.token, i, c), at |-> now,
                         result |-> VerifySecureToken(ReplaceAt(origin.token, i, c),
                                                      env, now)]
  /\ steps' = steps + 1
  /\ UNCHANGED <<now, ticks, rlVars, env, issued, apiVars, call>>

\* An issued token with characters or a segment added: a third segment, a
\* character after the signature, white space before the payload or after
\* the signature
Extended(token) ==
  { token \o <<".", "x">>, token \o <<"0">>, <<" ">> \o token, token \o <<" ">> }

\* An issued token without its '.', without its signature, without its
\* payload, and the empty text
Shortened(token) ==
  LET parts == SplitOn(token, ".")
  IN { parts[1] \o parts[2], parts[1] \o <<".">>, <<".">> \o parts[2], <<>> }

\* verifySecureToken(token) of an issued token extended or shortened
VerifyReshaped ==
  /\ verified = NoVerify
  /\ \E origin \in issued :
       \E kind \in {"extended", "shortened"} :
         \E token \in IF kind = "extended" THEN Extended(origin.token)
                       ELSE Shortened(origin.token) :
           verified' = [origin |-> origin, tamper |-> kind, token |-> token, at |-> now,
                        result |-> VerifySecureToken(token, env, now)]
  /\ steps' = steps + 1
  /\ UNCHANGED <<now, ticks, rlVars, env, issued, apiVars, call>>

NextToken == TokenTick \/ Generate \/ Verify \/ VerifyTampered \/ VerifyReshaped

SpecToken == InitToken /\ [][NextToken]_vars

\* ------------------------------------------------- the handlers' specification

\* Requests handled per behaviour.
MaxHandled == 1

\* The deployments: production, development and no environment flag, each
\* with its secrets set, and a production deployment with none set.
Deployments ==
  { Env("production", 7, 5, 9), Env("development", 7, 5, 9), Env("", 7, 5, 9),
    Env("production", 0, 0, 0) }

T_client == <<"7">>
T_key == <<"K","E","Y","-","1","2","3","4","5","6","7","8","9","0","-","A","B","C","D","E","F">>
T_site == <<"h","t","t","p","s",":","/","/","w","w","w",".","A",".","c","o","/">>

\* The store after n calls of rateLimit(identifier, maxRequests, windowMs) at t
RECURSIVE AfterCalls(_, _, _, _, _, _)
AfterCalls(store, identifier, maxRequests, windowMs, t, n) ==
  IF n = 0 THEN store
  ELSE AfterCalls(RateLimit(store, identifier, maxRequests, windowMs, t).store,
                  identifier, maxRequests, windowMs, t, n - 1)

\* The store as one client's requests at the clock's start leave it when they
\* reach the ceiling of every license handler's limiter: the first call of an
\* identifier opens its window and every call up to the ceiling counts
Exhausted ==
  LET ceilings == [k \in {T_client, T_activate \o T_client, T_deactivate \o T_client,
                          T_update \o T_client} |->
                     IF k = T_client THEN [count |-> 20, resetTime |-> StartTime + 60000]
                     ELSE IF k = T_activate \o T_client
                     THEN [count |-> 10, resetTime |-> StartTime + 3600000]
                     ELSE IF k = T_deactivate \o T_client
                     THEN [count |-> 15, resetTime |-> StartTime + 3600000]
                     ELSE [count |-> 30, resetTime |-> StartTime + 3600000]]
  IN [key \in {RateLimitKey(k) : k \in DOMAIN ceilings} |->
        ceilings[CHOOSE k \in DOMAIN ceilings : RateLimitKey(k) = key]]

\* The limiter's store at the start: empty, as ten validate-license
\* requests of one client at the clock's start leave it, or exhausted.
EarlierTraffic ==
  { << >>, AfterCalls(<< >>, T_client, 20, 60000, StartTime, 10), Exhausted }

Init ==
  /\ Idle
  /\ rateLimitStore \in EarlierTraffic
  /\ env \in Deployments

Headers(xff, xri, origin, signature) ==
  [xff |-> xff, xri |-> xri, origin |-> origin, signature |-> signature]
Body(fields) == [t |-> "obj", v |-> fields]
Request(endpoint, method, headers, body, chunks) ==
  [endpoint |-> endpoint, method |-> method, headers |-> headers, body |-> body,
   chunks |-> chunks]

\* The client's headers: through a proxy chain, through one proxy, direct.
HeaderSet ==
  { Headers(Str(<<"7",",","8">>), Undefined, Undefined, Undefined),
    Headers(Undefined, Str(T_client), Str(<<"h","t","t","p","s",":","/","/","a","u","t","h","o","r","k","i","t",".","p","r","o">>), Undefined),
    Headers(Undefined, Undefined, Undefined, Undefined) }

\* The requests an endpoint gets: a POST with each body from each client, and
\* a GET and an OPTIONS request.
Requests(endpoint, bodies) ==
  { Request(endpoint, "POST", h, b, <<>>) : h \in HeaderSet, b \in bodies }
    \cup { Request(endpoint, m, Headers(Undefined, Str(T_client), Undefined, Undefined),
                   Undefined, <<>>) : m \in {"GET", "OPTIONS"} }

LicenseBodies ==
  { Body([license_key |-> Str(T_key), site_url |-> Str(T_site)]),
    Body([license_key |-> Str(<<"s","h","o","r","t">>), site_url |-> Str(T_site)]),
    Body([license_key |-> Num(5), site_url |-> Str(T_site)]),
    Undefined }

DeactivateBodies ==
  { Body([license_key |-> Str(T_key), site_url |-> Str(T_site)]),
    Body([license_key |-> Str(T_key), instance_id |-> Str(<<"i","-","1">>)]),
    Body([license_key |-> Str(T_key)]),
    Undefined }

UpdateBody(slug, version) ==
  Body([license_key |-> Str(T_key), plugin_slug |-> Str(slug),
        current_version |-> Str(version), site_url |-> Str(T_site)])
UpdateBodies ==
  { UpdateBody(<<"a","u","t","h","o","r","k","i","t","-","p","r","o">>, <<"0",".","9",".","1","0">>),
    UpdateBody(<<"a","u","t","h","o","r","k","i","t","-","p","r","o">>, <<"1",".","0",".","0">>),
    UpdateBody(<<"a","u","t","h","o","r","k","i","t","-","a","g","e","n","c","y">>, <<"1",".","1",".","0">>),
    UpdateBody(<<"c","o","n","s","t","r","u","c","t","o","r">>, <<"1",".","0",".","0">>),
    UpdateBody(<<"o","t","h","e","r","-","p","l","u","g","i","n">>, <<"1",".","0",".","0">>),
    UpdateBody(<<"A","u","t","h","o","r"," ","K","i","t">>, <<"1",".","0">>),
    Undefined }

EmailBodies ==
  { Body([email |-> Str(<<"a","@","b",".","c","o">>), site_url |-> Str(T_site), site_name |-> Str(<<"A">>)]),
    Body([email |-> Str(<<"a","@","b">>), site_url |-> Str(T_site), site_name |-> Str(<<"A">>)]),
    Body([email |-> Num(5), site_url |-> Str(T_site), site_name |-> Str(<<"A">>)]),
    Body([site_url |-> Str(T_site), site_name |-> Str(<<"A">>)]),
    Undefined }

\* Instants before the clock's start and after every instant the clock reaches.
LongAgo == Num(1000)
FarAhead == Num(StartTime + 1000000000)

\* What the provider may answer to /v1/licenses/validate. active_sites holds
\* what the license's metadata holds: site texts, or objects with a url.
LsAnswers ==
  { LsDown, LsRefused,
    LsLicense("active", Null, <<>>, <<"A","u","t","h","o","r","K","i","t"," ","P","r","o">>),
    LsLicense("active", FarAhead, <<Str(<<"h","t","t","p","s",":","/","/","w","w","w",".","a",".","c","o","/">>)>>, <<"A","u","t","h","o","r","K","i","t"," ","P","r","o">>),
    LsLicense("active", FarAhead, <<Str(<<"h","t","t","p","s",":","/","/","b",".","c","o">>)>>, <<"A","u","t","h","o","r","K","i","t"," ","P","r","o">>),
    LsLicense("active", FarAhead, <<Obj(<<Prop(T_url, Str(<<"h","t","t","p","s",":","/","/","b",".","c","o">>))>>)>>,
              <<"A","u","t","h","o","r","K","i","t"," ","P","r","o">>),
    LsLicense("active", Null, <<>>, <<"A","u","t","h","o","r","K","i","t"," ","A","g","e","n","c","y">>),
    LsLicense("active", LongAgo, <<>>, <<"A","u","t","h","o","r","K","i","t"," ","P","r","o">>),
    LsLicense("inactive", Null, <<>>, <<"A","u","t","h","o","r","K","i","t"," ","P","r","o">>) }

\* What the provider may answer to /v1/licenses/activate and .../deactivate
LsActions ==
  { LsDown, LsRefused, [reached |-> TRUE, ok |-> FALSE, status |-> 500],
    [reached |-> TRUE, ok |-> TRUE, status |-> 200] }

\* The bodies the webhook gets, as texts.
W_order ==
  <<"{","\"","m","e","t","a","\"",":","{","\"","e","v","e","n","t","_","n","a","m","e","\"",":","\"","o","r","d","e","r","_","c","r","e","a","t","e","d","\"","}",",","\"","d","a","t","a","\"",":","{","\"","i","d","\"",":","\"","1","\"",",","\"","a","t","t","r","i","b","u","t","e","s","\"",":","{","}","}","}">>
W_nodata == <<"{","\"","m","e","t","a","\"",":","{","\"","e","v","e","n","t","_","n","a","m","e","\"",":","\"","o","r","d","e","r","_","c","r","e","a","t","e","d","\"","}","}">>
W_ping_head == <<"{","\"","m","e","t","a","\"",":","{","\"","e","v","e","n","t","_","n","a","m","e","\"",":","\"","p","i","n","g","\"","}",",","\"","x","\"",":","\"">>
W_ping_tail == <<"\"","}">>
W_ping == W_ping_head \o <<Replacement>> \o W_ping_tail

\* The bodies as the chunks of the request stream: each text in one chunk;
\* the order with a space put in front; the ping with its three-byte
\* character replaced by one byte that is no UTF-8, and with the stream cut
\* inside that character.
WebhookChunks ==
  { <<Bytes(W_order)>>,
    <<Bytes(<<" ">> \o W_order)>>,
    <<Bytes(W_nodata)>>,
    <<Bytes(W_ping)>>,
    <<Bytes(W_ping_head) \o <<255>> \o Bytes(W_ping_tail)>>,
    <<Bytes(W_ping_head) \o <<239>>, <<191, 189>> \o Bytes(W_ping_tail)>>,
    <<Bytes(<<"o","o","p","s">>)>>,
    <<Bytes(<<"n","u","l","l">>)>> }

\* The X-Signature headers a request with these chunks may carry: none, an
\* empty one, the sender's HMAC of the bytes sent under the shared secret or
\* under another one, and the HMAC of the order and of the ping.
Signatures(chunks) ==
  { Undefined, Str(<<>>),
    Str(HmacHexBytes(9, WireBytes(chunks))),
    Str(HmacHexBytes(8, WireBytes(chunks))),
    Str(HmacHexBytes(9, Bytes(W_order))),
    Str(HmacHexBytes(9, Bytes(W_ping))) }

WebhookRequests ==
  UNION { { Request("webhook", "POST", Headers(Undefined, Str(T_client), Undefined, s),
                    Undefined, c) : s \in Signatures(c) } : c \in WebhookChunks }
    \cup { Request("webhook", m, Headers(Undefined, Undefined, Undefined, Undefined),
                   Undefined, <<>>) : m \in {"GET", "OPTIONS"} }

\* The response with the headers the handler set.
Sent(response, headers) ==
  [status |-> response.status, json |-> response.json, body |-> response.body,
   headers |-> headers]

\* A handler that answers within one step has handled request r.
Handled(r, out) ==
  /\ steps < MaxHandled
  /\ steps' = steps + 1
  /\ req' = r
  /\ rateLimitStore' = out.store
  /\ trace' = out.trace
  /\ UNCHANGED <<now, ticks, rlLast, rlWindow, env, tokVars, subscribers, pending,
               shelf, call>>

\* POST /api/validate-license
ValidateLicenseRequest ==
  \E r \in Requests("validate-license", LicenseBodies), ls \in LsAnswers :
    LET out == ValidateLicense(rateLimitStore, r, env, now, ls)
    IN Handled(r, out) /\ res' = Sent(out.res, SecuredHeaders(r))

\* POST /api/activate-license
ActivateLicenseRequest ==
  \E r \in Requests("activate-license", LicenseBodies), ls \in LsAnswers,
     la \in LsActions :
    LET out == ActivateLicense(rateLimitStore, r, env, now, ls, la)
    IN Handled(r, out) /\ res' = Sent(out.res, SecuredHeaders(r))

\* POST /api/deactivate-license
DeactivateLicenseRequest ==
  \E r \in Requests("deactivate-license", DeactivateBodies), ld \in LsActions :
    LET out == DeactivateLicense(rateLimitStore, r, env, now, ld)
    IN Handled(r, out) /\ res' = Sent(out.res, SecuredHeaders(r))

\* POST /api/check-update
CheckUpdateRequest ==
  \E r \in Requests("check-update", UpdateBodies), ls \in LsAnswers :
    LET out == CheckUpdate(rateLimitStore, r, env, now, ls)
    IN Handled(r, out) /\ res' = Sent(out.res, SecuredHeaders(r))

\* part_007:307-309: the headers email-capture sets
EmailHeaders == [security |-> FALSE, allowOrigin |-> <<"*">>,
                 allowMethods |-> "POST, OPTIONS"]

\* POST /api/email-capture, up to the answer of the select; a request that
\* goes on to insert waits in pending
EmailCaptureArrives(most) ==
  /\ steps < most
  /\ \E r \in Requests("email-capture", EmailBodies) :
       LET sel == EmailCaptureSelect(rateLimitStore, r, env, now, subscribers)
       IN /\ req' = r
          /\ rateLimitStore' = sel.out.store
          /\ trace' = sel.out.trace
          /\ res' = IF sel.awaiting THEN NoResponse ELSE Sent(sel.out.res, EmailHeaders)
          /\ pending' = IF sel.awaiting
                        THEN pending \cup {[id |-> steps + 1, req |-> r,
                                            trace |-> sel.out.trace]}
                        ELSE pending
  /\ steps' = steps + 1
  /\ UNCHANGED <<now, ticks, rlLast, rlWindow, env, tokVars, subscribers, shelf, call>>

EmailCaptureRequest == EmailCaptureArrives(MaxHandled)

\* POST /api/email-capture, from the insert on
EmailCaptureInserted ==
  \E p \in pending :
    LET ins == EmailCaptureInsert(p.req, now, subscribers)
    IN /\ req' = p.req
       /\ res' = Sent(ins.res, EmailHeaders)
       /\ trace' = p.trace \o ins.trace
       /\ subscribers' = ins.table
       /\ pending' = pending \ {p}
       /\ UNCHANGED <<clockVars, rlVars, env, tokVars, shelf, call>>

\* lemon-squeezy.js:38: the headers the webhook sets
WebhookHeaders == [security |-> TRUE, allowOrigin |-> <<>>, allowMethods |-> ""]

\* POST /api/webhooks/lemon-squeezy
WebhookRequest ==
  \E r \in WebhookRequests :
    LET out == Webhook(r, env)
    IN /\ Handled(r, [store |-> rateLimitStore, trace |-> out.trace])
       /\ res' = Sent(out.res, WebhookHeaders)

\* The page and limit values of a query: none, numbers in and out of range,
\* zero, negative, texts that are no numbers or only start with one, and a
\* parameter given twice.
PageValues ==
  { Undefined, Str(<<"1">>), Str(<<"2">>), Str(<<"0">>), Str(<<"-","3">>), Str(<<"a","b","c">>),
    Str(<<"2",".","5">>), Str(<<" ","7">>), Str(<<"0","x","1","0">>), Str(<<>>), Arr(<<<<"3">>, <<"4">>>>) }
LimitValues ==
  { Undefined, Str(<<"5">>), Str(<<"1","0","0">>), Str(<<"1","0","1">>), Str(<<"0">>), Str(<<"-","5">>),
    Str(<<"t","e","n">>), Str(<<"1","e","3">>), Str(<<>>) }

\* A stored book; formats is null, a JSON text or a text that is no JSON
BookRow(id, formats) == [id |-> id, formats |-> formats]

\* What the database may answer to the range query: an error (the handler
\* does not read the rows then), no rows, one
\* stored book, more books than the page holds, a row whose formats is no JSON
DbAnswers ==
  { [error |-> [message |-> "connection refused", code |-> "08006"],
     data |-> <<>>, count |-> Null],
    [error |-> Null, data |-> <<>>, count |-> Num(0)],
    [error |-> Null, data |-> <<>>, count |-> Null],
    [error |-> Null, data |-> <<BookRow(1, Str(<<"[","]">>))>>, count |-> Num(1)],
    [error |-> Null, data |-> <<BookRow(1, Null), BookRow(2, Null)>>, count |-> Num(201)],
    [error |-> Null, data |-> <<BookRow(1, Str(<<"e","p","u","b">>))>>, count |-> Num(1)] }

StatsAnswers == { [count |-> Null, authors |-> 0], [count |-> Num(1), authors |-> 1] }

\* The queries: every page value without a limit, every limit value without
\* a page, and both given
Queries ==
  { [page |-> p, limit |-> Undefined] : p \in PageValues }
    \cup { [page |-> Undefined, limit |-> l] : l \in LimitValues }
    \cup { [page |-> Str(<<"1">>), limit |-> Str(<<"5">>)],
           [page |-> Str(<<"2">>), limit |-> Str(<<"5">>)],
           [page |-> Str(<<"2">>), limit |-> Str(<<"1","0","0">>)],
           [page |-> Str(<<"-","3">>), limit |-> Str(<<"1","0","1">>)],
           [page |-> Str(<<"a","b","c">>), limit |-> Str(<<"t","e","n">>)] }

BooksRequests ==
  { [endpoint |-> "bookshelf/books", method |-> "GET",
     headers |-> Headers(Undefined, Undefined, Undefined, Undefined),
     body |-> Undefined, chunks |-> <<>>, query |-> q] : q \in Queries }
    \cup { [endpoint |-> "bookshelf/books", method |-> m,
            headers |-> Headers(Undefined, Undefined, Undefined, Undefined),
            body |-> Undefined, chunks |-> <<>>,
            query |-> [page |-> Undefined, limit |-> Undefined]] : m \in {"POST", "OPTIONS"} }

\* The handlers of the bookshelf set no headers.
NoHeaders == [security |-> FALSE, allowOrigin |-> <<>>, allowMethods |-> ""]

\* GET /api/bookshelf/books
BooksRequest ==
  \E r \in BooksRequests, db \in DbAnswers, stats \in StatsAnswers :
    LET out == Books(r, db, stats)
    IN /\ Handled(r, [store |-> rateLimitStore, trace |-> out.trace])
       /\ res' = Sent(out.res, NoHeaders)

\* The database refuses a query, or carries it out
DbRefused == [error |-> [message |-> "connection refused", code |-> "08006"], data |-> Null]
DbDone(data) == [error |-> Null, data |-> data]

\* The requests a POST handler of the bookshelf gets: a POST with each body,
\* and a GET and an OPTIONS request
BookshelfRequests(endpoint, bodies) ==
  { Request(endpoint, "POST", Headers(Undefined, Undefined, Undefined, Undefined), b, <<>>) :
      b \in bodies }
    \cup { Request(endpoint, m, Headers(Undefined, Undefined, Undefined, Undefined),
                   Undefined, <<>>) : m \in {"GET", "OPTIONS"} }

RegisterBodies ==
  { Body([site_url |-> Str(T_site), site_name |-> Str(<<"A">>)]),
    Body([site_url |-> Str(T_site)]),
    Undefined }
SyncBodies ==
  { Body([site_url |-> Str(T_site), site_name |-> Str(<<"A">>), book_post_id |-> Num(42),
          title |-> Str(<<"T">>)]),
    Body([site_url |-> Str(T_site), site_name |-> Str(<<"A">>), book_post_id |-> Num(42),
          title |-> Str(<<"T">>),
          bookshelf_genres |-> Arr(<<<<"a">>, <<>>, <<"b">>, <<"c">>>>)]),
    Body([site_url |-> Str(T_site), site_name |-> Str(<<"A">>), book_post_id |-> Num(42)]),
    Undefined }
RemoveBodies ==
  { Body([site_url |-> Str(T_site), book_post_id |-> Num(42)]),
    Body([site_url |-> Str(T_site), book_post_id |-> Num(0)]),
    Undefined }

\* A bookshelf handler has handled request r.
BookshelfHandled(r, out) ==
  /\ Handled(r, [store |-> rateLimitStore, trace |-> out.trace])
  /\ res' = Sent(out.res, NoHeaders)

\* POST /api/bookshelf/register
RegisterRequest ==
  \E r \in BookshelfRequests("bookshelf/register", RegisterBodies),
     db \in {DbRefused, DbDone([id |-> 123])} :
    BookshelfHandled(r, Register(r, db))

\* POST /api/bookshelf/deregister
DeregisterRequest ==
  \E r \in BookshelfRequests("bookshelf/deregister", RegisterBodies),
     db \in { [count |-> [error |-> Null, count |-> Num(12)], deleted |-> DbDone(Null),
               updated |-> DbDone(Null)],
              [count |-> [error |-> DbRefused.error, count |-> Null], deleted |-> DbRefused,
               updated |-> DbRefused],
              [count |-> [error |-> Null, count |-> Num(0)], deleted |-> DbDone(Null),
               updated |-> DbRefused] } :
    BookshelfHandled(r, Deregister(r, db))

\* POST /api/bookshelf/sync
SyncRequest ==
  \E r \in BookshelfRequests("bookshelf/sync", SyncBodies),
     db \in { [site |-> DbDone(Null), book |-> DbDone([id |-> 456])],
              [site |-> DbRefused, book |-> DbRefused],
              [site |-> DbDone(Null), book |-> DbRefused] } :
    BookshelfHandled(r, Sync(r, db))

\* POST /api/bookshelf/remove
RemoveRequest ==
  \E r \in BookshelfRequests("bookshelf/remove", RemoveBodies),
     db \in {DbRefused, DbDone(Null)} :
    BookshelfHandled(r, Remove(r, db))

Next ==
  \/ Tick
  \/ ValidateLicenseRequest
  \/ ActivateLicenseRequest
  \/ DeactivateLicenseRequest
  \/ CheckUpdateRequest
  \/ EmailCaptureRequest
  \/ EmailCaptureInserted
  \/ WebhookRequest
  \/ BooksRequest
  \/ RegisterRequest
  \/ DeregisterRequest
  \/ SyncRequest
  \/ RemoveRequest

Spec == Init /\ [][Next]_vars

\* ------------------------------------------ email-capture requests that race

\* email-capture requests per behaviour of the specification of the race
MaxRacing == 2

\* A request arrives while others wait for the database.
EmailCaptureRacing == EmailCaptureArrives(MaxRacing)

NextEmail ==
  \/ EmailCaptureRacing
  \/ EmailCaptureInserted

SpecEmail == Init /\ [][NextEmail]_vars

\* ------------------------------------- bookshelf requests that share the tables

T_other == <<"h","t","t","p","s",":","/","/","b",".","c","o">>

\* The tables of a bookshelf in use: two sites, a book of each, one genre
Stocked ==
  [sites |-> {[site_url |-> T_site, active |-> TRUE], [site_url |-> T_other, active |-> TRUE]},
   books |-> {[id |-> 1, site_url |-> T_site, book_post_id |-> 42],
              [id |-> 2, site_url |-> T_other, book_post_id |-> 7]},
   genres |-> {[book_id |-> 1, genre_slug |-> <<"x">>], [book_id |-> 2, genre_slug |-> <<"y">>]},
   seq |-> 2]

InitShelf ==
  /\ Unstarted
  /\ rateLimitStore = << >>
  /\ env = Env("production", 7, 5, 9)
  /\ shelf \in {NoShelf, Stocked}

SyncBody(book_post_id, genres) ==
  Body([site_url |-> Str(T_site), site_name |-> Str(<<"A">>),
        book_post_id |-> Num(book_post_id), title |-> Str(<<"T">>),
        bookshelf_genres |-> Arr(genres)])

\* The requests: syncs of one book with genre lists that are disjoint, that
\* overlap, that hold more than two genres or none; a sync of another book of
\* the site; the site's deregistration; a sync without a body
ShelfRequests ==
  { Request("bookshelf/sync", "POST", Headers(Undefined, Undefined, Undefined, Undefined),
            b, <<>>) :
      b \in { SyncBody(42, <<<<"a">>, <<"b">>>>), SyncBody(42, <<<<"c">>, <<"d">>>>),
              SyncBody(42, <<<<"b">>, <<>>, <<"c">>, <<"e">>>>), SyncBody(42, <<>>),
              SyncBody(43, <<<<"a">>>>), Undefined } }
    \cup { Request("bookshelf/deregister", "POST",
                   Headers(Undefined, Undefined, Undefined, Undefined),
                   Body([site_url |-> Str(T_site)]), <<>>) }

\* The fields validatePayload requires of the handler's payload
RequiredOf(endpoint) ==
  IF endpoint = "bookshelf/sync" THEN <<"site_url", "site_name", "book_post_id", "title">>
  ELSE <<"site_url">>

\* A request arrives; one that passes the handler's head waits for the database
ShelfArrives ==
  /\ steps < MaxShelfRequests
  /\ \E r \in ShelfRequests :
       LET head == BookshelfHead(r, RequiredOf(r.endpoint))
       IN /\ req' = r
          /\ res' = IF head # Null THEN Sent(head.res, NoHeaders) ELSE NoResponse
          /\ trace' = <<>>
          /\ pending' = IF head # Null THEN pending
                        ELSE pending \cup {[id |-> steps + 1, req |-> r, pc |-> "start",
                                            bookId |-> 0, bookCount |-> 0, deleted |-> 0]}
  /\ steps' = steps + 1
  /\ UNCHANGED <<now, ticks, rlVars, env, tokVars, subscribers, shelf, call>>

\* The handler of p goes on to its next query.
Awaits(p, q) ==
  /\ pending' = (pending \ {p}) \cup {q}
  /\ UNCHANGED <<clockVars, rlVars, env, tokVars, req, res, trace, subscribers, call>>

\* The handler of p answers.
Answers(p, response, tr) ==
  /\ pending' = pending \ {p}
  /\ req' = p.req
  /\ res' = Sent(response, NoHeaders)
  /\ trace' = tr
  /\ UNCHANGED <<clockVars, rlVars, env, tokVars, subscribers, call>>

Waiting(endpoint, pc) == {p \in pending : p.req.endpoint = endpoint /\ p.pc = pc}

\* sync.js:43-55: the upsert of the site
SyncSite ==
  \E p \in Waiting("bookshelf/sync", "start") :
    /\ shelf' = UpsertSite(shelf, p.req.body.v.site_url.v)
    /\ Awaits(p, [p EXCEPT !.pc = "book"])

\* sync.js:90-106: the upsert of the book
SyncBook ==
  \E p \in Waiting("bookshelf/sync", "book") :
    LET up == UpsertBook(shelf, p.req.body.v.site_url.v, p.req.body.v.book_post_id.v)
    IN /\ shelf' = up.tables
       /\ IF up.error # Null
          THEN Answers(p, Json(500, FormatSupabaseError(up.error)), <<>>)
          ELSE Awaits(p, [p EXCEPT !.pc = "genres", !.bookId = up.data.id])

\* sync.js:108-114: the delete of the book's genres; without genres to
\* insert the handler answers
SyncGenresDeleted ==
  \E p \in Waiting("bookshelf/sync", "genres") :
    /\ shelf' = DeleteGenres(shelf, p.bookId)
    /\ IF GenreRecords(p.req.body.v, p.bookId) = <<>>
       THEN Answers(p, Json(200, [success |-> TRUE, book_id |-> p.bookId,
                                  message |-> "Book synced successfully"]), <<>>)
       ELSE Awaits(p, [p EXCEPT !.pc = "insert"])

\* sync.js:116-142: the insert of the genres, whose error the handler only
\* logs, and the answer
SyncGenresInserted ==
  \E p \in Waiting("bookshelf/sync", "insert") :
    LET ins == InsertGenres(shelf, GenreRecords(p.req.body.v, p.bookId))
    IN /\ shelf' = ins.tables
       /\ Answers(p, Json(200, [success |-> TRUE, book_id |-> p.bookId,
                                message |-> "Book synced successfully"]),
                  <<[op |-> "supabase", query |-> "insert genres",
                     rows |-> GenreRecords(p.req.body.v, p.bookId), error |-> ins.error]>>)

\* part_005:43-52: the count of the site's books
DeregisterCounted ==
  \E p \in Waiting("bookshelf/deregister", "start") :
    /\ shelf' = shelf
    /\ Awaits(p, [p EXCEPT !.pc = "delete",
                           !.bookCount = Cardinality(BooksOfSite(shelf, p.req.body.v.site_url.v))])

\* part_005:54-64: the delete of the site's books
DeregisterDeleted ==
  \E p \in Waiting("bookshelf/deregister", "delete") :
    /\ shelf' = DeleteBooks(shelf, p.req.body.v.site_url.v)
    /\ Awaits(p, [p EXCEPT !.pc = "update",
                           !.deleted = Cardinality(BooksOfSite(shelf, p.req.body.v.site_url.v))])

\* part_005:66-82: the update of the site and the answer
DeregisterUpdated ==
  \E p \in Waiting("bookshelf/deregister", "update") :
    /\ shelf' = DeactivateSite(shelf, p.req.body.v.site_url.v)
    /\ Answers(p, Json(200, [success |-> TRUE, books_removed |-> p.bookCount,
                             message |-> "Site deregistered successfully"]),
               <<[op |-> "supabase", query |-> "delete books", deleted |-> p.deleted]>>)

NextShelf ==
  \/ ShelfArrives
  \/ SyncSite
  \/ SyncBook
  \/ SyncGenresDeleted
  \/ SyncGenresInserted
  \/ DeregisterCounted
  \/ DeregisterDeleted
  \/ DeregisterUpdated

SpecShelf == InitShelf /\ [][NextShelf]_vars

\* ------------------------------------------- validateInput on its own

\* The values a payload may hold for a field: none, null, blank texts,
\* numbers, booleans, an object, and texts: a license key, a short one, a
\* slug, a version, URLs.
FieldValues ==
  { Undefined, Null, Str(<<>>), Str(<<" "," ">>), Num(0), Num(5), Bool(TRUE),
    Obj(<<>>), Str(<<"K","E","Y","-","1","2","3","4","5","6","7","8","9","0">>), Str(<<"s","h","o","r","t">>),
    Str(<<" ","h","t","t","p","s",":","/","/","w","w","w",".","A",".","c","o","/"," ">>),
    Str(<<" "," ","s","h","o","r","t"," "," "," ">>) }

\* The payloads: every choice of values for three fields a schema may name
InputFields == {"license_key", "site_url", "site_name"}
InputPayloads == [InputFields -> FieldValues]

\* The schemas: those of validate-license and activate-license, the same
\* with the fields in the other order, and one whose fields are all optional.
InputSchemas ==
  { ValidateSchema, ActivateSchema,
    << Rule("site_url", "url", TRUE, 0, 0, "none"),
       Rule("license_key", "string", TRUE, 500, 10, "none") >>,
    << Rule("license_key", "string", FALSE, 500, 10, "none"),
       Rule("site_url", "url", FALSE, 0, 0, "none"),
       Rule("site_name", "string", FALSE, 255, 0, "none") >> }

InitInput == Loaded /\ env = Env("production", 7, 5, 9)

\* One call validateInput(data, schema)
ValidateInputCall ==
  /\ call = NotCalled
  /\ \E data \in InputPayloads, schema \in InputSchemas :
       call' = [fn |-> "validateInput", data |-> data, schema |-> schema,
                result |-> ValidateInput(data, schema)]
  /\ UNCHANGED <<clockVars, rlVars, env, tokVars, apiVars>>

\* A schema with one field of type 'url'
UrlSchema == << Rule("site_url", "url", TRUE, 0, 0, "none") >>

\* The texts sent as a URL: plain ones, with the scheme or the www. twice,
\* with the scheme in capitals, with two slashes at the end, with white
\* space around, and texts of which nothing is left.
UrlTexts ==
  { <<"a",".","c","o">>, <<"h","t","t","p",":","/","/","a",".","c","o">>, <<"h","t","t","p","s",":","/","/","w","w","w",".","A",".","c","o","/">>, <<"w","w","w",".","a",".","c","o","/","p","a","t","h">>,
    <<"h","t","t","p","s",":","/","/","h","t","t","p","s",":","/","/","a",".","c","o">>, <<"w","w","w",".","w","w","w",".","a",".","c","o">>, <<"H","T","T","P","S",":","/","/","a",".","c","o">>, <<"a",".","c","o","/","/">>,
    <<" ","h","t","t","p","s",":","/","/","a",".","c","o">>, <<"a",".","c","o","/"," ">>, <<"h","t","t","p","s",":","/","/">>, <<" "," ">> }

\* The url sanitized by validateInput, and what validateInput makes of the
\* sanitized value when it is sent again
SanitizeTwice ==
  /\ call = NotCalled
  /\ \E u \in UrlTexts :
       LET once == ValidateInput([site_url |-> Str(u)], UrlSchema)
       IN call' = [fn |-> "sanitize", url |-> u, once |-> once,
                   twice |-> IF once.isValid
                             THEN ValidateInput([site_url |-> once.data["site_url"]],
                                                UrlSchema)
                             ELSE once]
  /\ UNCHANGED <<clockVars, rlVars, env, tokVars, apiVars>>

NextInput ==
  \/ ValidateInputCall
  \/ SanitizeTwice

SpecInput == InitInput /\ [][NextInput]_vars

\* -------------------------------------------------------------- rate limiter: claims

\* The step is a rateLimit call for identifier a.
CalledFor(a) == steps' = steps + 1 /\ rlLast'.identifier = a

\* C1: for an identifier with no open window, the calls made with one
\* maxRequests and windowMs while the window opened by the first of them is
\* open are allowed exactly for the first maxRequests of them; with
\* maxRequests = 3 and windowMs = 60000 the fourth call, made before the window's
\* reset instant, is denied with retryAfter > 0.
C1_FirstMaxRequestsAllowed ==
  rlLast # NoCall =>
    LET w == rlWindow[rlLast.identifier]
    IN /\ w.uniform => (rlLast.result.allowed <=> w.calls <= rlLast.maxRequests)
       /\ ( /\ w.uniform
            /\ rlLast.maxRequests = 3
            /\ rlLast.windowMs = 60000
            /\ w.calls = 4
            /\ rlLast.at < w.opened + w.windowMs )
          => (~rlLast.result.allowed /\ rlLast.result.retryAfter > 0)

\* C1 witness: the fourth call of a 3-per-minute window has just been denied.
C1_Witness ==
  /\ rlLast # NoCall
  /\ rlLast.maxRequests = 3
  /\ rlLast.windowMs = 60000
  /\ rlWindow[rlLast.identifier].uniform
  /\ rlWindow[rlLast.identifier].calls = 4
  /\ ~rlLast.result.allowed
  /\ rlLast.result.retryAfter > 0

\* The times at which identifier b's next call may come.
NextCallTimes(t) == {t} \cup {t + d : d \in Deltas}

\* A call for a leaves b's next result as it would have been without it.
SameNextResult(b) ==
  \A m \in MaxRequestsSet, w \in WindowMsSet, t \in NextCallTimes(now') :
    RateLimit(rateLimitStore', b, m, w, t).result
      = RateLimit(rateLimitStore, b, m, w, t).result

\* C2 as stated: a call for identifier a never changes the count or resetTime
\* of another identifier b, nor the result b's next call returns.
C2_Original ==
  [][\A a, b \in Identifiers :
       (a # b /\ CalledFor(a)) =>
         /\ (RateLimitKey(b) \in DOMAIN rateLimitStore
               <=> RateLimitKey(b) \in DOMAIN rateLimitStore')
         /\ RateLimitKey(b) \in DOMAIN rateLimitStore =>
               rateLimitStore'[RateLimitKey(b)] = rateLimitStore[RateLimitKey(b)]
         /\ SameNextResult(b)]_vars

\* C2 amended: a call for identifier a never creates a record of another
\* identifier b and never changes the count or resetTime of b's record; it may
\* delete b's record, and only one whose window has elapsed (resetTime < now);
\* the result b's next call returns is the same either way.
C2_PerIdentity ==
  [][\A a, b \in Identifiers :
       (a # b /\ CalledFor(a)) =>
         /\ RateLimitKey(b) \in DOMAIN rateLimitStore' =>
               /\ RateLimitKey(b) \in DOMAIN rateLimitStore
               /\ rateLimitStore'[RateLimitKey(b)] = rateLimitStore[RateLimitKey(b)]
         /\ ( /\ RateLimitKey(b) \in DOMAIN rateLimitStore
              /\ RateLimitKey(b) \notin DOMAIN rateLimitStore' )
            => rateLimitStore[RateLimitKey(b)].resetTime < now
         /\ SameNextResult(b)]_vars

\* C2 witness: a denied call for one identifier has swept the elapsed record
\* of another, which had been called before.
C2_Witness ==
  /\ rlLast # NoCall
  /\ ~rlLast.result.allowed
  /\ \E b \in Identifiers :
       /\ b # rlLast.identifier
       /\ b \in DOMAIN rlWindow
       /\ RateLimitKey(b) \notin DOMAIN rateLimitStore

\* -------------------------------------------------------------- tokens: claims

\* The claims of a token's data, the exp claim set aside.
WithoutExp(props) ==
  [k \in DOMAIN PropMap(props) \ {T_exp} |-> PropMap(props)[k]]

\* The instant a token signed at origin.at with origin.expiresIn expires.
ExpiryOf(origin) == origin.at + origin.expiresIn * 1000

C5_TamperDetected ==
  verified # NoVerify =>
    /\ verified.result.valid =>
         LET parts == SplitOn(verified.token, ".")
         IN /\ Len(parts) >= 2
            /\ parts[2] = HmacHex(TokenSecret(env),
                                  Utf8Decode(Base64Decode(parts[1])))
    /\ verified.tamper = "signature" => ~verified.result.valid

\* C5 witness: a token that verifies as valid has been refused with
\* 'Invalid signature' after one character of its signature was changed.
C5_Witness ==
  /\ verified # NoVerify
  /\ verified.tamper = "signature"
  /\ VerifySecureToken(verified.origin.token, env, verified.at).valid
  /\ ~verified.result.valid
  /\ verified.result.error = "Invalid signature"

\* C6 as stated: a token signed at t with expiresIn seconds is refused with
\* 'Token expired' by every verification after t + expiresIn * 1000 and accepted
\* by every verification at or before that instant.
C6_ExpiryOnly ==
  (verified # NoVerify /\ verified.tamper = "none") =>
    IF verified.at > ExpiryOf(verified.origin)
    THEN ~verified.result.valid /\ verified.result.error = "Token expired"
    ELSE verified.result.valid

\* ------------------------------------------------------------ handlers: claims

\* The handled request passed the handler's limiter.
PassedLimiter == trace # <<>> /\ trace[1].op = "rateLimit"

\* What the handler did: some entry of the trace is one of these operations
Did(ops) == \E i \in 1..Len(trace) : trace[i].op \in ops

\* The handler fetched url and the provider answered with a license.
LicenseFetched(url) ==
  \E i \in 1..Len(trace) :
    /\ trace[i].op = "fetch" /\ trace[i].url = url
    /\ trace[i].answer.reached /\ trace[i].answer.ok
\* The provider's answer to that fetch
AnswerOf(url) ==
  trace[CHOOSE i \in 1..Len(trace) : trace[i].op = "fetch" /\ trace[i].url = url].answer

\* The provider reports the license as active and unexpired.
ActiveUnexpired(answer) ==
  answer.license.status = "active" /\ ~LicenseExpired(answer.license, now)

\* C3: rate-limit counters of different endpoints are independent. After
\* traffic of one client to validate-license only, the first request that
\* client sends to another rate-limited endpoint is not answered 429, and the
\* limiter record that request used counts one request.
C3_EndpointsIndependent ==
  (/\ steps = 1 /\ req.endpoint # "validate-license" /\ PassedLimiter
   /\ DOMAIN rateLimitStore
        \subseteq {RateLimitKey(T_client), RateLimitKey(trace[1].identifier)})
    => /\ res.status # 429
       /\ rateLimitStore[RateLimitKey(trace[1].identifier)].count = 1

\* The X-Signature header is the HMAC-SHA256 of the bytes sent under the
\* webhook secret.
SignatureMatchesWire ==
  req.headers.signature =
    Str(HmacHexBytes(env.LEMON_SQUEEZY_WEBHOOK_SECRET, WireBytes(req.chunks)))

\* A POST to the webhook of a deployment whose webhook secret is set
WebhookPosted ==
  req.endpoint = "webhook" /\ req.method = "POST" /\ env.LEMON_SQUEEZY_WEBHOOK_SECRET # 0

\* C7: for a webhook request that carries an X-Signature header, the body is
\* parsed and an event handler dispatched only if the header equals the HMAC
\* of the untouched raw body under the webhook secret; every other body or
\* signature is answered 401 'Invalid signature', nothing parsed, no handler
\* called.
C7_VerifiedBeforeParse ==
  (WebhookPosted /\ req.headers.signature # Undefined)
    => /\ Did({"JSON.parse", "dispatch"}) => SignatureMatchesWire
       /\ ~SignatureMatchesWire
            => /\ res.status = 401
               /\ res.body.error = "Invalid signature"
               /\ ~Did({"JSON.parse", "dispatch"})

\* C8: a webhook request without a signature is answered 401 in production,
\* goes on to parsing and dispatch only when NODE_ENV is "development", and
\* has a security event logged either way.
C8_UnsignedOnlyInDevelopment ==
  (WebhookPosted /\ req.headers.signature = Undefined)
    => /\ env.NODE_ENV = "production" => res.status = 401
       /\ Did({"JSON.parse", "dispatch"}) => env.NODE_ENV = "development"
       /\ Did({"logSecurityEvent"})

\* The license has one active site, an object with a url, and that url is not
\* the requested site's.
OneOtherSite(answer) ==
  LET sites == answer.license.active_sites
  IN /\ Len(sites) = 1
     /\ sites[1].t = "obj"
     /\ GetProp(sites[1].v, T_url).t = "str"
     /\ CleanSite(GetProp(sites[1].v, T_url).v) # CleanSite(req.body.v.site_url.v)

\* C9: activate-license for an active, unexpired pro license that has one
\* active site other than the requested one answers 400 with success false
\* and data.max_activations 1, and does not call the provider's activate
\* endpoint.
C9_CeilingRefused ==
  (/\ req.endpoint = "activate-license"
   /\ LicenseFetched("licenses/validate")
   /\ ActiveUnexpired(AnswerOf("licenses/validate"))
   /\ Tier(AnswerOf("licenses/validate").meta) = "pro"
   /\ OneOtherSite(AnswerOf("licenses/validate")))
    => /\ res.status = 400
       /\ res.body.success = FALSE
       /\ res.body.data.max_activations = 1
       /\ \A i \in 1..Len(trace) :
            ~(trace[i].op = "fetch" /\ trace[i].url = "licenses/activate")

\* Every active site of the license is a text.
SitesAreTexts(answer) ==
  \A i \in 1..Len(answer.license.active_sites) : answer.license.active_sites[i].t = "str"

\* The requested site, normalized, is one of the active sites, normalized.
RequestedSiteActive(answer) ==
  \E i \in 1..Len(answer.license.active_sites) :
    CleanSite(answer.license.active_sites[i].v) = CleanSite(req.body.v.site_url.v)

\* C10: validate-license for a license the provider reports active and
\* unexpired answers 200 with valid true whatever the list of active sites,
\* data.is_site_activated telling whether the normalized requested site is
\* one of them, and for tier pro data.sites_remaining =
\* max(0, max_activations - number of active sites).
C10_ValidAnswer ==
  (/\ req.endpoint = "validate-license"
   /\ LicenseFetched("licenses/validate")
   /\ ActiveUnexpired(AnswerOf("licenses/validate"))
   /\ SitesAreTexts(AnswerOf("licenses/validate")))
    => LET answer == AnswerOf("licenses/validate")
       IN /\ res.status = 200
          /\ res.body.valid = TRUE
          /\ res.body.data.is_site_activated = RequestedSiteActive(answer)
          /\ Tier(answer.meta) = "pro"
               => res.body.data.sites_remaining
                    = (IF 1 - Len(answer.license.active_sites) > 0
                       THEN 1 - Len(answer.license.active_sites) ELSE 0)

\* ------------------------------------------------------ validateInput: claims

\* The payload has no value for the field, or a text of white space only.
AbsentOrBlank(value) ==
  value = Undefined \/ (value.t = "str" /\ Trim(value.v) = <<>>)

\* The errors the result holds for a field
ErrorsFor(result, field) ==
  SelectSeq(result.errors, LAMBDA e : e.field = field)

\* C11: for every schema and payload, a required field that is absent or
\* blank makes validateInput return isValid false, with '<field> is required'
\* among the errors and no entry for the field in data.
C11_RequiredMissing ==
  call.fn = "validateInput" =>
    \A i \in 1..Len(call.schema) :
      (call.schema[i].required
         /\ AbsentOrBlank(Get(call.data, call.schema[i].field)))
        => /\ ~call.result.threw
           /\ ~call.result.isValid
           /\ \E k \in 1..Len(call.result.errors) :
                call.result.errors[k] = [field |-> call.schema[i].field,
                                         msg |-> "is required"]
           /\ call.schema[i].field \notin DOMAIN call.result.data

\* C12: validateInput never aborts on a bad field. For every schema and
\* payload, values that are no strings included, it returns a result; a field
\* has at most one error, a field with an error has no entry in data, and
\* every field of the schema has been validated: it has an error or an entry.
C12_NeverAborts ==
  call.fn = "validateInput" =>
    /\ ~call.result.threw
    /\ \A i \in 1..Len(call.schema) :
         LET field == call.schema[i].field
             failed == Len(ErrorsFor(call.result, field))
         IN /\ failed <= 1
            /\ failed = 1 => field \notin DOMAIN call.result.data
            /\ failed = 0 => field \in DOMAIN call.result.data

\* C13: URL sanitization is idempotent: sanitizing the sanitized value of an
\* accepted URL gives that same value.
C13_SanitizeIdempotent ==
  (call.fn = "sanitize" /\ call.once.isValid)
    => /\ call.twice.isValid
       /\ call.twice.data["site_url"] = call.once.data["site_url"]

\* ------------------------------------------------------------ books: claims

\* C14: whatever the page and limit of the query (absent, no number, zero,
\* negative, above 100), a books response that carries a pagination has
\* page >= 1 and 1 <= limit <= 100, the range asked of the database starts at
\* (page - 1) * limit, and pages is the least number of pages of that limit
\* that hold total rows; page=1, limit=5 and one stored book give
\* {page: 1, limit: 5, total: 1, pages: 1}.
C14_Pagination ==
  (req.endpoint = "bookshelf/books" /\ res.status = 200)
    => LET p == res.body.pagination
       IN /\ p.page >= 1
          /\ p.limit >= 1 /\ p.limit <= 100
          /\ trace[1].range[1] = (p.page - 1) * p.limit
          /\ p.pages * p.limit >= p.total
          /\ p.pages >= 0 /\ (p.pages > 0 => (p.pages - 1) * p.limit < p.total)
          /\ (req.query = [page |-> Str(<<"1">>), limit |-> Str(<<"5">>)]
                /\ trace[1].answer.count = Num(1))
               => p = [page |-> 1, limit |-> 5, total |-> 1, pages |-> 1]

\* A query with a negative page and a limit above 100 has been answered,
\* with more rows stored than a page holds.
C14_Witness ==
  /\ req.endpoint = "bookshelf/books"
  /\ req.query = [page |-> Str(<<"-","3">>), limit |-> Str(<<"1","0","1">>)]
  /\ res.status = 200
  /\ res.body.pagination = [page |-> 1, limit |-> 100, total |-> 201, pages |-> 3]

\* ---------------------------------------------------- email-capture: claims

\* The handled request is an email-capture POST with a valid email, site_url
\* and site_name, and it has been answered.
ValidSubscription ==
  /\ req.endpoint = "email-capture" /\ req.method = "POST"
  /\ req.body.t = "obj"
  /\ ValidatePayload(req.body.v, <<"email", "site_url", "site_name">>) = Null
  /\ EmailTest(req.body.v["email"])
  /\ res.status # 0

\* The rows of the table with the handled request's email and site_url
RowsOfPair ==
  {row \in subscribers.rows :
     row.email = req.body.v["email"] /\ row.site_url = req.body.v["site_url"]}

\* C15: under any interleaving of email-capture requests with the same valid
\* email and site_url, the table holds exactly one row for the pair and each
\* request is answered 200 with success: with subscriber_id when it inserted
\* the row, with already_subscribed true otherwise.
C15_RaceEndsInSuccess ==
  (ValidSubscription /\ res.status # 429)
    => /\ Cardinality(RowsOfPair) = 1
       /\ res.status = 200
       /\ res.body.success = TRUE
       /\ \/ "subscriber_id" \in DOMAIN res.body
          \/ ("already_subscribed" \in DOMAIN res.body /\ res.body.already_subscribed)

\* The schema a license handler validates its input with
SchemaOf(endpoint) ==
  CASE endpoint = "validate-license" -> ValidateSchema
    [] endpoint = "activate-license" -> ActivateSchema
    [] endpoint = "deactivate-license" -> DeactivateSchema
    [] endpoint = "check-update" -> UpdateSchema

\* The handled request is a POST to a license handler that its limiter let pass.
ValidatingRequest ==
  /\ req.endpoint \in {"validate-license", "activate-license", "deactivate-license",
                       "check-update"}
  /\ req.method = "POST" /\ PassedLimiter /\ res.status # 429

\* The input of the handled request does not meet the handler's schema:
\* validation reports errors or does not come to a result.
InputFails ==
  LET validation == ValidateBody(req.body, SchemaOf(req.endpoint))
  IN validation.threw \/ ~validation.isValid

\* C16: a request the limiter denies is answered 429 with retryAfter, and the
\* handler neither validates its input nor calls the payments provider or
\* the database; a request whose input fails validation is answered 400 with
\* the list of errors, and the handler calls neither provider nor database.
C16_DeniedOrInvalid ==
  /\ (PassedLimiter /\ res.status = 429)
       => /\ "retryAfter" \in DOMAIN res.body
          /\ ~Did({"validateInput", "fetch", "supabase"})
  /\ (ValidatingRequest /\ InputFails)
       => /\ res.status = 400 /\ "errors" \in DOMAIN res.body
          /\ ~Did({"fetch", "supabase"})

\* The messages of the exceptions thrown in the handlers and of the errors the
\* database and the provider's client report
Detail ==
  { "Cannot read properties", "Cannot read properties of undefined",
    "Cannot read properties of null", "Cannot read properties of null (reading 'meta')",
    "Cannot read properties of undefined (reading 'replace')",
    "Cannot read properties of undefined (reading 'split')",
    "Unexpected token", "cleanSiteUrl is not defined", "site.replace is not a function",
    "fetch failed", "connection refused",
    "duplicate key value violates unique constraint \"unique_email_per_site\"" }

\* The response to the handled request reports a failure of the server and a
\* field of its body holds the message of the exception or of the database.
ShowsDetail ==
  /\ res.status = 500
  /\ \E f \in {"error", "message", "details"} \cap DOMAIN res.body : res.body[f] \in Detail

\* C17: a failure response holds the message of the underlying exception or
\* of the provider's or the database's error only when the environment flag
\* is development, never when it is production.
C17_DetailOnlyInDevelopment == ShowsDetail => env.NODE_ENV = "development"

\* The handled request was answered with a JSON body.
JsonAnswered == res.status # 0 /\ res.json

\* C18: every JSON response body of every handler, on success and on every
\* failure path, holds a boolean field named success or valid.
C18_SuccessOrValid ==
  JsonAnswered
    => \/ ("success" \in DOMAIN res.body /\ res.body.success \in BOOLEAN)
       \/ ("valid" \in DOMAIN res.body /\ res.body.valid \in BOOLEAN)

\* The endpoints whose operation uses POST
PostEndpoints ==
  { "validate-license", "activate-license", "deactivate-license", "check-update",
    "webhook", "bookshelf/register", "bookshelf/deregister", "bookshelf/sync",
    "bookshelf/remove", "email-capture" }

\* C19: every endpoint whose operation uses POST answers an OPTIONS request
\* with status 200 and no body.
C19_OptionsAnswered ==
  (req.endpoint \in PostEndpoints /\ req.method = "OPTIONS")
    => res.status = 200 /\ ~res.json /\ res.body = End(200).body

\* The places of '.' in a token
Dots(token) == {i \in 1..Len(token) : token[i] = "."}
\* The last of them
LastDot(token) == CHOOSE i \in Dots(token) : \A j \in Dots(token) : j <= i

\* A token without a '.', or with nothing before or after its last '.'
NoTwoSegments(token) ==
  Dots(token) = {} \/ LastDot(token) = 1 \/ LastDot(token) = Len(token)

\* C20: verifySecureToken answers 'Invalid token format' to a token without
\* a '.' or with an empty segment, and accepts only texts of the form
\* base64(claims) + '.' + hex(HMAC): an issued token with characters or a
\* '.'-separated segment added is not accepted.
C20_ExactForm ==
  verified # NoVerify =>
    /\ NoTwoSegments(verified.token)
         => ~verified.result.valid /\ verified.result.error = "Invalid token format"
    /\ verified.tamper = "extended" => ~verified.result.valid

\* The step is a rateLimit call made while the store holds more records than
\* the sweep's threshold.
CalledOverThreshold ==
  steps' = steps + 1 /\ Cardinality(DOMAIN rateLimitStore) > SweepThreshold

\* C21: a rateLimit call made while the store holds more records than the
\* threshold deletes every record whose window has elapsed at that moment
\* (resetTime < now) and deletes no record whose window is still open. The
\* caller's own record, which the call replaces or counts, is set aside.
C21_SweepsElapsed ==
  [][CalledOverThreshold =>
       \A k \in DOMAIN rateLimitStore \ {RateLimitKey(rlLast'.identifier)} :
         IF rateLimitStore[k].resetTime < now
         THEN k \notin DOMAIN rateLimitStore'
         ELSE k \in DOMAIN rateLimitStore' /\ rateLimitStore'[k] = rateLimitStore[k]]_vars

\* ------------------------------------------------------- bookshelf tables: claims

\* The genre associations of a book
GenresOf(id) == {g \in shelf.genres : g.book_id = id}

\* C22: in every state of the bookshelf's tables, after any sequence and any
\* interleaving of sync requests, each book has at most 2 genre associations.
C22_TwoGenresAtMost ==
  \A b \in shelf.books : Cardinality(GenresOf(b.id)) <= 2

\* The site of a waiting request
SiteOf(p) == p.req.body.v.site_url.v

\* The step is one of the deregister request p: p leaves the requests that
\* wait, changed or answered.
DeregisterStep(p) == p.req.endpoint = "bookshelf/deregister" /\ p \notin pending'

\* C24: when a deregister request for site S returns success, no book row
\* has site_url S, S's site row is marked active = false, the books of every
\* other site are as they were before, and books_removed is the number of
\* S's books the request deleted, also when a sync for S runs between the
\* count and the delete.
C24_Deregistered ==
  [][\A p \in pending :
       DeregisterStep(p) =>
         /\ shelf'.books \ BooksOfSite(shelf', SiteOf(p))
              = shelf.books \ BooksOfSite(shelf, SiteOf(p))
         /\ (p.pc = "update" /\ res'.status = 200) =>
              /\ BooksOfSite(shelf', SiteOf(p)) = {}
              /\ \A s \in shelf'.sites : s.site_url = SiteOf(p) => ~s.active
              /\ res'.body.books_removed = p.deleted]_vars

\* The slugs of the plugins the version table lists, and the version it lists
KnownSlugs ==
  { <<"a","u","t","h","o","r","k","i","t","-","p","r","o">>,
    <<"a","u","t","h","o","r","k","i","t","-","a","g","e","n","c","y">> }
ListedVersion == <<1, 0, 0>>

\* The numbers of a version major.minor.patch
VersionNumbers(version) ==
  [i \in 1..3 |-> NatValue(SplitOn(version, ".")[i])]
\* a is lower than b: lower at the first component where they differ
LowerNumbers(a, b) ==
  \E i \in 1..3 : a[i] < b[i] /\ \A j \in 1..(i - 1) : a[j] = b[j]

\* check-update asked the provider, and the provider's answer
UpdateFetched == req.endpoint = "check-update" /\ Did({"fetch"})
UpdateLicense == AnswerOf("licenses/validate")
\* The provider did not answer with a license that is active and not expired.
UpdateRefused ==
  /\ UpdateLicense.reached
  /\ \/ ~UpdateLicense.ok
     \/ UpdateLicense.license.status # "active"
     \/ /\ UpdateLicense.license.expires_at # Null
        /\ UpdateLicense.license.expires_at.v < now
\* check-update offered the update: a token was generated or the body says so
UpdateOffered ==
  /\ req.endpoint = "check-update"
  /\ \/ Did({"generateSecureToken"})
     \/ ("update_available" \in DOMAIN res.body /\ res.body.update_available)

\* C23: check-update generates a download token and answers update_available
\* = true only when the provider validated the license, the license is active
\* and not expired, the plugin slug is listed and current_version is strictly
\* lower than the listed version, compared number by number; a license the
\* provider refuses, or that is inactive or expired, gets 403 and no token.
C23_UpdateOnlyForValidLicense ==
  /\ UpdateOffered
       => /\ res.status = 200 /\ res.body.update_available
          /\ Did({"generateSecureToken"})
          /\ UpdateFetched /\ UpdateLicense.reached /\ ~UpdateRefused
          /\ req.body.v.plugin_slug.v \in KnownSlugs
          /\ LowerNumbers(VersionNumbers(req.body.v.current_version.v), ListedVersion)
  /\ (UpdateFetched /\ UpdateRefused)
       => res.status = 403 /\ ~Did({"generateSecureToken"})

\* An update was offered; a refused license was answered.
C23_Witness == UpdateOffered /\ res.status = 200
C23_WitnessRefused ==
  UpdateFetched /\ UpdateRefused /\ UpdateLicense.ok /\ res.status = 403

\* The last call was made for identifier and was denied / allowed.
DeniedLast(identifier) ==
  rlLast.identifier = identifier /\ ~rlLast.result.allowed
AllowedLast(identifier) ==
  rlLast.identifier = identifier /\ rlLast.result.allowed
\* The record of the identifier the next call is made for
RecordOfNext == rateLimitStore[RateLimitKey(rlLast'.identifier)]
\* A call of rateLimit for an identifier that has a record
CalledWithRecord ==
  /\ rlLast' # rlLast
  /\ RateLimitKey(rlLast'.identifier) \in DOMAIN rateLimitStore

\* C25: no identity stays rate-limited forever. A call made after the clock
\* passed the resetTime of the identifier's record is allowed and replaces
\* the record with count = 1 and resetTime = now + windowMs; a call made at
\* now = resetTime belongs to the old window: it is denied when the record's
\* count has reached maxRequests, and counted in that record otherwise; and
\* an identifier denied in a window that ends before the horizon is allowed
\* later.
C25_NotLimitedForever ==
  /\ [][CalledWithRecord =>
          /\ now > RecordOfNext.resetTime
               => /\ rlLast'.result.allowed
                  /\ rateLimitStore'[RateLimitKey(rlLast'.identifier)]
                       = [count |-> 1, resetTime |-> now + rlLast'.windowMs]
          /\ now = RecordOfNext.resetTime
               => /\ rlLast'.result.allowed = (RecordOfNext.count < rlLast'.maxRequests)
                  /\ rateLimitStore'[RateLimitKey(rlLast'.identifier)].resetTime
                       = RecordOfNext.resetTime]_vars
  /\ \A identifier \in Identifiers :
       (DeniedLast(identifier) /\ rlLast.result.resetTime < Horizon)
         ~> AllowedLast(identifier)

\* A call made at the instant the window ends was denied.
C25_Witness ==
  /\ rlLast.identifier # <<>> /\ ~rlLast.result.allowed
  /\ rlLast.at = rlLast.result.resetTime

\* The step is a rateLimit call that was denied.
CalledAndDenied == steps' = steps + 1 /\ ~rlLast'.result.allowed

RecordOf(identifier) == rateLimitStore[RateLimitKey(identifier)]

\* C27: for an identifier whose calls all had the same maxRequests >= 1, the
\* record satisfies 1 <= count <= maxRequests, and the result of a call has
\* remaining = maxRequests - count with 0 <= remaining <= maxRequests - 1
\* when it is allowed and remaining = 0 when it is denied.
C27_CountAndRemaining ==
  /\ \A identifier \in DOMAIN rlWindow :
       ( /\ rlWindow[identifier].sameMax
         /\ rlWindow[identifier].maxRequests >= 1
         /\ RateLimitKey(identifier) \in DOMAIN rateLimitStore )
         => /\ 1 <= RecordOf(identifier).count
            /\ RecordOf(identifier).count <= rlWindow[identifier].maxRequests
  /\ ( /\ rlLast # NoCall
       /\ rlWindow[rlLast.identifier].sameMax
       /\ rlLast.maxRequests >= 1 )
       => IF rlLast.result.allowed
          THEN /\ rlLast.result.remaining
                    = rlLast.maxRequests - RecordOf(rlLast.identifier).count
               /\ 0 <= rlLast.result.remaining
               /\ rlLast.result.remaining <= rlLast.maxRequests - 1
          ELSE rlLast.result.remaining = 0

\* The third call of a window of three was allowed with nothing remaining.
C27_Witness ==
  /\ rlLast # NoCall /\ rlLast.result.allowed
  /\ rlWindow[rlLast.identifier].sameMax /\ rlLast.maxRequests = 3
  /\ RecordOf(rlLast.identifier).count = 3
  /\ rlLast.result.remaining = 0

\* C28: whenever a call is denied, retryAfter is an integer with
\* 1 <= retryAfter <= ceil(windowMs / 1000), at every instant a denial can
\* occur, the instant now = resetTime included (the calls counted in the
\* record all made with one maxRequests and windowMs).
C28_RetryAfterRange ==
  ( /\ rlLast # NoCall /\ ~rlLast.result.allowed
    /\ rlWindow[rlLast.identifier].uniform )
    => /\ rlLast.result.retryAfter \in Int
       /\ 1 <= rlLast.result.retryAfter
       /\ rlLast.result.retryAfter <= Ceil(rlLast.windowMs, 1000)

\* The text stored for rule's field meets the rule's constraints.
MeetsRule(rule, text) ==
  /\ rule.minLength # 0 => Len(text) >= rule.minLength
  /\ rule.maxLength # 0 => Len(text) <= rule.maxLength
  /\ rule.pattern # "none" => PatternTest(rule.pattern, text)

\* C29: every text validateInput stores in data for a field of type 'string'
\* meets the field's constraints as stored: its length, after the trimming,
\* is at least minLength and at most maxLength, and it matches the pattern
\* when one is given.
C29_StoredMeetsConstraints ==
  (call.fn = "validateInput" /\ ~call.result.threw)
    => \A i \in 1..Len(call.schema) :
         ( /\ call.schema[i].type = "string"
           /\ call.schema[i].field \in DOMAIN call.result.data
           /\ call.result.data[call.schema[i].field].t = "str" )
           => MeetsRule(call.schema[i], call.result.data[call.schema[i].field].v)

\* The handlers that call rateLimit
LimitedEndpoints ==
  {"validate-license", "activate-license", "deactivate-license", "check-update"}
\* The step handles a request to one of them.
HandledLimited == steps' = steps + 1 /\ req'.endpoint \in LimitedEndpoints
\* The key of the limiter record the handled request was counted under
CallerKey == RateLimitKey(trace'[1].identifier)
\* The count the caller's record held in its open window before the request
CountBefore ==
  IF CallerKey \in DOMAIN rateLimitStore /\ now <= rateLimitStore[CallerKey].resetTime
  THEN rateLimitStore[CallerKey].count
  ELSE 0

C30_WitnessOptions ==
  /\ req.endpoint \in LimitedEndpoints /\ req.method = "OPTIONS"
  /\ res.status = 200 /\ rateLimitStore # << >>

====
